---- MODULE Spec2Model ----
(***************************************************************************)
(* Model of the PresetPreferenceGenerator core: the GeneticAlgorithm       *)
(* engine (lifecycle and steady-state loop), the mailbox ParameterBridge   *)
(* and the MLPPreferenceModel feedback queue.                              *)
(*                                                                         *)
(* Floats are put on integer grids: a gene is 0 (0.0) or 1 (1.0), a        *)
(* fitness is in units of 0.5 (0 = 0.0, 1 = 0.5, 2 = 1.0).  C++ indices    *)
(* are shifted by one (TLA+ sequences start at 1), so bestIndex = 0 is the *)
(* source's bestIndex = -1.                                                *)
(***************************************************************************)
EXTENDS Integers, Sequences, FiniteSets, TLC

(***************************************************************************)
(* Bounds and program constants                                            *)
(***************************************************************************)

\* GeneticAlgorithm.h: PARAMETER_COUNT, the genome length.
PARAMETER_COUNT == 17

\* Stand-in for POPULATION_SIZE (50 in the source).
PopulationSize == 2

\* Stand-in for OFFSPRING_PER_GENERATION (10 in the source); kept below
\* PopulationSize as in the source.
OffspringPerGeneration == 1

\* selector.tournamentSize = 3 in GeneticAlgorithm::run.
TournamentSize == 3

\* Gene values on the unit grid.
GeneValues == {0, 1}

\* The random draws considered for Population::initializeRandom: every gene
\* of an individual gets the same value.
RandomGenomes == {[i \in 1..PARAMETER_COUNT |-> g] : g \in GeneValues}

\* The coin-flip sequences considered for UniformCrossover (TRUE: parent1).
CoinPatterns == {[i \in 1..PARAMETER_COUNT |-> b] : b \in BOOLEAN}

\* The draws considered for UniformMutation: the set of selected parameters
\* (rng.nextFloat() < mutationRate) and the perturbation applied to them.  On
\* the unit grid the only perturbation of magnitude <= mutationStrength (0.4)
\* is 0.
MutationDraws ==
    {[selected |-> s, perturbation |-> 0] : s \in {{}, 1..PARAMETER_COUNT}}

\* The fitness models the engine is driven with.
FitnessModels == {"Mock", "Dummy"}

VARIABLES
    \* ---- juce::Thread state of GeneticAlgorithm
    threadRunning,          \* isThreadRunning()
    shouldExit,             \* threadShouldExit()
    \* ---- GeneticAlgorithm members
    paused,
    pauseEvent,             \* juce::WaitableEvent: TRUE when signalled
    populationInitialized,
    bestFitnessSoFar,
    individuals,            \* Population::individuals (<<>>: population == nullptr)
    bestIndex,              \* Population::bestIndex
    statisticsDirty,        \* Population::statisticsDirty
    fitnessModel,           \* which IFitnessModel the engine was built with
    \* ---- position of the background thread in run() and its locals
    enginePc,
    offspring,
    genIndex,               \* the loop variable i of the offspring loop
    \* ---- position of the controlling thread
    ctlPc,
    \* ---- ParameterBridge members
    parameters,
    storedFitness,
    ready,
    mtx,
    \* ---- history (not program state)
    pushedBy,               \* who made the latest push: "none", "startGA", "run"
    stopFrom,               \* engine state at the latest stopGA call since the last start
    stopReturned,           \* a stopGA has returned and no startGA was called since
    \* ---- threads inside ParameterBridge calls, one statement at a time
    bpc,                    \* per thread: the statement it is at
    arg,                    \* per producer: the candidate passed to push
    outParams,              \* per consumer: the caller's params argument of pop
    outFitness,             \* per consumer: the caller's fitness argument of pop
    popResult,              \* per consumer: what the latest pop returned ("none": not yet)
    \* ---- history of the bridge calls (not program state)
    pushCount,              \* number of push calls made
    popCount,               \* per candidate: number of pops that returned it
    committed,              \* the candidate of the latest completed store in push
    overwrote,              \* that store found the previous candidate unread
    \* ---- MLPPreferenceModel members
    feedbackQueue,
    sampleCount,
    queueMutex,             \* holder of each lock, or "free"
    mlpMutex,
    fileLock,
    queueEvent,             \* juce::WaitableEvent: TRUE when signalled
    replayBuffer,
    bufferIndex,
    lastSaveCount,
    \* ---- what reached the networks and the files, in order
    trained,
    csvRows,
    savedAt,
    \* ---- the training thread, the sendFeedback caller, the evaluate caller
    workerPc,
    item,                   \* the worker's local QueuedFeedback (0: none)
    callerPc,
    callerIndex,            \* the caller's local index
    evalPc,
    ratePc,                 \* the setSampleRate caller
    \* ---- history of the sendFeedback calls (not program state)
    callSnapshot,           \* where the worker was when the call in progress was made
    \* ---- the two MLPs of a preference model and their weight files
    nets,                   \* per network: weights, biases, Adam state
    weightFiles,            \* per network: the persisted weight file
    modelAlive,             \* a model is constructed
    sessions,               \* number of models constructed so far
    lastOp,                 \* the latest operation on the model
    setArg,                 \* the latest setWeights call: network and vector
    setResult,              \* and what it returned
    \* ---- AudioFeatureCache members
    cache,                  \* genome hash -> feature vector
    lruOrder,               \* most recently used at front
    lruMap,                 \* the hashes that have an iterator into lruOrder
    cacheHits,
    cacheMisses,
    sampleRate,
    \* ---- the cache's caller and collaborator
    cacheCalls,             \* number of calls made on the cache
    cacheCall,              \* the latest call
    cacheReturn,            \* and what it returned
    renders,                \* number of renderings made by synth and extractor
    lastAccess,             \* per hash: the number of its latest getFeatures call
    \* ---- the dataset directory
    datasetFile,            \* feedback_dataset.csv
    backupFiles,            \* feedback_dataset_backup_<second>.csv, per second
    clock,                  \* the current second
    datasetOwner,           \* the class of the model logging to the file
    datasetSchema,          \* and the parameter names it was constructed with
    constructions,
    rowsWritten,
    puts,
    \* ---- an Individual on its own
    individual,
    individualOp,           \* the latest operation applied to it
    modifiedSince,          \* parameters differ from those of the last setFitness
    \* ---- a genome under GenomeConstraints::repair
    repaired,               \* the genome given, the genome now, the calls made
    \* ---- the locals of replayTrain and what its latest pass trained on
    replay

gaVars == <<threadRunning, shouldExit, paused, pauseEvent, populationInitialized,
            bestFitnessSoFar, individuals, bestIndex, statisticsDirty,
            fitnessModel, enginePc, offspring, genIndex, ctlPc>>

bridgeVars == <<parameters, storedFitness, ready, mtx>>

historyVars == <<pushedBy, stopFrom, stopReturned>>

callVars == <<bpc, arg, outParams, outFitness, popResult,
              pushCount, popCount, committed, overwrote>>

feedbackVars == <<feedbackQueue, sampleCount, queueMutex, mlpMutex, fileLock,
                  queueEvent, replayBuffer, bufferIndex, lastSaveCount,
                  trained, csvRows, savedAt, workerPc, item, callerPc,
                  callerIndex, evalPc, ratePc, callSnapshot>>

mlpVars == <<nets, weightFiles, modelAlive, sessions, lastOp, setArg, setResult>>

cacheVars == <<cache, lruOrder, lruMap, cacheHits, cacheMisses, sampleRate,
               cacheCalls, cacheCall, cacheReturn, renders, lastAccess>>

datasetVars == <<datasetFile, backupFiles, clock, datasetOwner, datasetSchema,
                 constructions, rowsWritten, puts>>

individualVars == <<individual, individualOp, modifiedSince>>

\* the components modelled on their own
componentVars == <<mlpVars, cacheVars, datasetVars, individualVars, repaired,
                   replay>>

\* what the engine's actions never touch
apartVars == <<callVars, feedbackVars, componentVars>>

vars == <<gaVars, bridgeVars, historyVars, callVars, feedbackVars, componentVars>>

(***************************************************************************)
(* Individual                                                              *)
(***************************************************************************)

\* Individual::Individual(int parameterCount)
NewIndividual(count) ==
    [parameters |-> [i \in 1..count |-> 0], fitness |-> 0, isEvaluated |-> FALSE]

\* Individual::setFitness
setFitness(ind, f) == [ind EXCEPT !.fitness = f, !.isEvaluated = TRUE]

\* Individual::invalidateFitness
invalidateFitness(ind) == [ind EXCEPT !.isEvaluated = FALSE]

\* Individual::setParameters
setParameters(ind, params) == [ind EXCEPT !.parameters = params, !.isEvaluated = FALSE]

\* The evaluated flag survives the write.
setParameter_keepsFlag(ind, index, value) ==
    IF index >= 1 /\ index <= Len(ind.parameters)
    THEN [ind EXCEPT !.parameters[index] = value]
    ELSE ind

\* Individual::setParameter (index is 1-based here)
setParameter(ind, index, value) ==
    IF index >= 1 /\ index <= Len(ind.parameters)
    THEN [ind EXCEPT !.parameters[index] = value, !.isEvaluated = FALSE]
    ELSE ind

\* Individual::getParameter
getParameter(ind, index) ==
    IF index >= 1 /\ index <= Len(ind.parameters) THEN ind.parameters[index] ELSE 0

(***************************************************************************)
(* Population                                                              *)
(***************************************************************************)

\* Population::updateStatistics: the first evaluated individual holding the
\* largest fitness (strict > in a left-to-right scan); 0 when none is evaluated.
updateStatistics(inds) ==
    IF \A i \in 1..Len(inds) : ~inds[i].isEvaluated
    THEN 0
    ELSE CHOOSE i \in 1..Len(inds) :
            /\ inds[i].isEvaluated
            /\ \A j \in 1..Len(inds) :
                  inds[j].isEvaluated =>
                     /\ inds[j].fitness <= inds[i].fitness
                     /\ (j < i => inds[j].fitness < inds[i].fitness)

\* Population::getBestFitness
getBestFitness(inds) ==
    IF updateStatistics(inds) >= 1 THEN inds[updateStatistics(inds)].fitness ELSE 0

\* Population::hasBest: whether an evaluated individual exists.
hasBest(inds) == updateStatistics(inds) >= 1

\* Population::getBest
getBest(inds) == inds[updateStatistics(inds)]

(***************************************************************************)
(* Fitness models                                                          *)
(***************************************************************************)

\* IFitnessModel::evaluate: the values one call may return.  MockFitnessModel
\* returns the constant 0.5; DummyFitnessModel draws rng.nextFloat().
evaluate(model, genome) == IF model = "Mock" THEN {1} ELSE {0, 2}

(***************************************************************************)
(* ParameterBridge, one critical section at a time                         *)
(***************************************************************************)

\* ParameterBridge::push
push(params, fitness) ==
    /\ parameters' = params
    /\ storedFitness' = fitness
    /\ ready' = TRUE
    /\ mtx' = mtx
    /\ UNCHANGED apartVars

\* ParameterBridge::clear
clear ==
    /\ ready' = FALSE
    /\ UNCHANGED <<parameters, storedFitness, mtx, apartVars>>

\* ParameterBridge::pop (the copies go to the caller's locals)
pop ==
    /\ ready' = FALSE
    /\ UNCHANGED <<parameters, storedFitness, mtx, apartVars>>

(***************************************************************************)
(* Evolutionary operators                                                  *)
(***************************************************************************)

\* TournamentSelection::operator(): draws[k] is the k-th rng.nextInt(popSize);
\* the winner among the first k draws.
RECURSIVE TournamentWinner(_, _, _)
TournamentWinner(inds, draws, k) ==
    IF k = 1
    THEN draws[1]
    ELSE LET best == TournamentWinner(inds, draws, k - 1)
         IN  IF inds[draws[k]].fitness > inds[best].fitness THEN draws[k] ELSE best

\* The indices one tournament may return.
TournamentSelection(inds) ==
    {TournamentWinner(inds, draws, TournamentSize) :
        draws \in [1..TournamentSize -> 1..Len(inds)]}

\* UniformCrossover::operator(): coins[i] is the i-th rng.nextBool().
UniformCrossover(parent1, parent2, coins) ==
    [parameters |-> [i \in 1..Len(parent1.parameters) |->
                        IF coins[i] THEN getParameter(parent1, i)
                                    ELSE getParameter(parent2, i)],
     fitness |-> 0,
     isEvaluated |-> FALSE]

\* juce::jlimit(0.0f, 1.0f, v)
jlimit01(v) == IF v < 0 THEN 0 ELSE IF v > 1 THEN 1 ELSE v

\* UniformMutation::operator()
UniformMutation(ind, draw) ==
    LET hit == draw.selected \cap (1..Len(ind.parameters))
        params == [i \in 1..Len(ind.parameters) |->
                      IF i \in hit THEN jlimit01(ind.parameters[i] + draw.perturbation)
                                   ELSE ind.parameters[i]]
    IN  IF hit # {}
        THEN [ind EXCEPT !.parameters = params, !.isEvaluated = FALSE]
        ELSE ind

(***************************************************************************)
(* GeneticAlgorithm: helpers of startGA and run                            *)
(***************************************************************************)

\* Variant: the evaluation loop honours a stale exit flag and returns at once
\* (initializePopulation(true) after a stop), leaving everyone unevaluated.
initializePopulation_exitEarly(model) ==
    {inds \in [1..PopulationSize ->
                 [parameters : RandomGenomes, fitness : {0}, isEvaluated : {FALSE}]] : TRUE}

\* GeneticAlgorithm::initializePopulation(false): the populations it may build
\* (Population constructor, initializeRandom, then evaluation of everyone).
initializePopulation(model) ==
    {inds \in [1..PopulationSize ->
                 [parameters : RandomGenomes, fitness : {0, 1, 2}, isEvaluated : {TRUE}]] :
        \A i \in 1..PopulationSize :
            inds[i].fitness \in evaluate(model, inds[i].parameters)}

\* The orders std::sort may leave the evaluated individuals in: ascending by
\* fitness, ties in any order.
SortedByFitness(inds) ==
    LET evaluated == {i \in 1..Len(inds) : inds[i].isEvaluated}
        n == Cardinality(evaluated)
    IN  {order \in [1..n -> evaluated] :
            /\ \A a, b \in 1..n : a # b => order[a] # order[b]
            /\ \A a, b \in 1..n : a < b => inds[order[a]].fitness <= inds[order[b]].fitness}

Min(a, b) == IF a < b THEN a ELSE b

\* Every evaluated slot is overwritten, the offspring taken round-robin.
replaceWorst_everySlot(inds, offs, order) ==
    [j \in 1..Len(inds) |->
        IF \E i \in 1..Len(order) : order[i] = j
        THEN offs[(((CHOOSE i \in 1..Len(order) : order[i] = j) - 1) % Len(offs)) + 1]
        ELSE inds[j]]

\* The sorted order is read from its far end: the best are overwritten.
replaceWorst_takesBest(inds, offs, order) ==
    LET numToReplace == Min(Len(offs), Len(order))
        fromEnd(i) == order[Len(order) + 1 - i]
    IN  [j \in 1..Len(inds) |->
            IF \E i \in 1..numToReplace : fromEnd(i) = j
            THEN offs[CHOOSE i \in 1..numToReplace : fromEnd(i) = j]
            ELSE inds[j]]

\* The replacement block of run(): offspring[i] overwrites the i-th worst.
replaceWorst(inds, offs, order) ==
    LET numToReplace == Min(Len(offs), Len(order))
    IN  [j \in 1..Len(inds) |->
            IF \E i \in 1..numToReplace : order[i] = j
            THEN offs[CHOOSE i \in 1..numToReplace : order[i] = j]
            ELSE inds[j]]

\* std::max_element over the offspring by fitness: the first largest.
bestOffspring(offs) ==
    offs[CHOOSE i \in 1..Len(offs) :
            \A j \in 1..Len(offs) :
                /\ offs[j].fitness <= offs[i].fitness
                /\ (j < i => offs[j].fitness < offs[i].fitness)]

(***************************************************************************)
(* juce::Thread, as GeneticAlgorithm uses it                               *)
(***************************************************************************)

\* juce::Thread::startThread: clears the exit flag and launches run().
startThread ==
    /\ shouldExit' = FALSE
    /\ threadRunning' = TRUE
    /\ enginePc' = "top"
    /\ offspring' = <<>>
    /\ genIndex' = 0

\* run() returns: the thread ends and isThreadRunning() becomes false.
threadExit ==
    /\ enginePc' = "none"
    /\ threadRunning' = FALSE
    /\ offspring' = <<>>
    /\ genIndex' = 0

(***************************************************************************)
(* GeneticAlgorithm: the control surface (one caller, one call at a time)  *)
(***************************************************************************)

\* startGA past its isThreadRunning() guard.
startGA_body ==
    /\ paused' = FALSE
    /\ pauseEvent' = TRUE
    /\ IF ~populationInitialized
       THEN \E inds \in initializePopulation(fitnessModel) :
               /\ individuals' = inds
               /\ bestIndex' = updateStatistics(inds)
               /\ statisticsDirty' = FALSE
               /\ bestFitnessSoFar' = getBestFitness(inds)
               /\ populationInitialized' = TRUE
               /\ IF Len(inds) > 0 /\ hasBest(inds)
                  THEN /\ push(getBest(inds).parameters, getBest(inds).fitness)
                       /\ pushedBy' = "startGA"
                  ELSE UNCHANGED <<bridgeVars, apartVars, pushedBy>>
       ELSE UNCHANGED <<individuals, bestIndex, statisticsDirty, bestFitnessSoFar,
                        populationInitialized, bridgeVars, apartVars, pushedBy>>
    /\ startThread
    /\ stopFrom' = "none"
    /\ stopReturned' = FALSE
    /\ UNCHANGED <<fitnessModel, ctlPc>>

\* Variant: startGA without its isThreadRunning() guard.
startGA_noGuard ==
    /\ ctlPc = "idle"
    /\ startGA_body

\* GeneticAlgorithm::startGA
startGA ==
    /\ ctlPc = "idle"
    /\ IF threadRunning
       THEN /\ stopFrom' = "none"
            /\ stopReturned' = FALSE
            /\ UNCHANGED <<gaVars, bridgeVars, apartVars, pushedBy>>
       ELSE startGA_body

\* GeneticAlgorithm::stopGA up to the wait inside stopThread:
\* signalThreadShouldExit() and pauseEvent.signal().
stopGA_signal ==
    /\ ctlPc = "idle"
    /\ shouldExit' = TRUE
    /\ pauseEvent' = TRUE
    /\ ctlPc' = "stopping"
    /\ stopFrom' = IF ~threadRunning THEN "Idle" ELSE IF paused THEN "Paused" ELSE "Running"
    /\ stopReturned' = FALSE
    /\ UNCHANGED <<threadRunning, paused, populationInitialized, bestFitnessSoFar,
                   individuals, bestIndex, statisticsDirty, fitnessModel, enginePc,
                   offspring, genIndex, bridgeVars, apartVars, pushedBy>>

\* Variant: stopGA forgets paused.store(false).
stopGA_reset_keepsPause ==
    /\ populationInitialized' = FALSE
    /\ bestFitnessSoFar' = 0
    /\ ctlPc' = "idle"
    /\ stopReturned' = TRUE
    /\ UNCHANGED <<threadRunning, shouldExit, paused, pauseEvent, individuals, bestIndex,
                   statisticsDirty, fitnessModel, enginePc, offspring, genIndex,
                   bridgeVars, apartVars, pushedBy, stopFrom>>

\* Variant: stopGA leaves populationInitialized as it is.
stopGA_reset_keepsPopulation ==
    /\ paused' = FALSE
    /\ bestFitnessSoFar' = 0
    /\ ctlPc' = "idle"
    /\ stopReturned' = TRUE
    /\ UNCHANGED <<threadRunning, shouldExit, pauseEvent, populationInitialized,
                   individuals, bestIndex, statisticsDirty, fitnessModel, enginePc,
                   offspring, genIndex, bridgeVars, apartVars, pushedBy, stopFrom>>

\* What stopGA does once stopThread has returned.
stopGA_reset ==
    /\ paused' = FALSE
    /\ populationInitialized' = FALSE
    /\ bestFitnessSoFar' = 0
    /\ ctlPc' = "idle"
    /\ stopReturned' = TRUE
    /\ UNCHANGED <<threadRunning, shouldExit, pauseEvent, individuals, bestIndex,
                   statisticsDirty, fitnessModel, enginePc, offspring, genIndex,
                   bridgeVars, apartVars, pushedBy, stopFrom>>

\* Variant: stopGA signals the thread but does not wait for it.
stopGA_join_noWait ==
    /\ ctlPc = "stopping"
    /\ stopGA_reset

\* GeneticAlgorithm::stopGA from stopThread on: stopThread returns when the
\* thread has left run(); the loop's exit checks are at most one evaluate()
\* and one 100 ms wait apart, well inside the 2000 ms allowed.
stopGA_join ==
    /\ ctlPc = "stopping"
    /\ ~threadRunning
    /\ stopGA_reset

\* Variant: pauseGA without its isThreadRunning() guard.
pauseGA_noGuard ==
    /\ ctlPc = "idle"
    /\ IF ~paused
       THEN /\ paused' = TRUE
            /\ pauseEvent' = FALSE
       ELSE UNCHANGED <<paused, pauseEvent>>
    /\ UNCHANGED <<threadRunning, shouldExit, populationInitialized, bestFitnessSoFar,
                   individuals, bestIndex, statisticsDirty, fitnessModel, enginePc,
                   offspring, genIndex, ctlPc, bridgeVars, apartVars, historyVars>>

\* GeneticAlgorithm::pauseGA
pauseGA ==
    /\ ctlPc = "idle"
    /\ IF threadRunning /\ ~paused
       THEN /\ paused' = TRUE
            /\ pauseEvent' = FALSE
       ELSE UNCHANGED <<paused, pauseEvent>>
    /\ UNCHANGED <<threadRunning, shouldExit, populationInitialized, bestFitnessSoFar,
                   individuals, bestIndex, statisticsDirty, fitnessModel, enginePc,
                   offspring, genIndex, ctlPc, bridgeVars, apartVars, historyVars>>

\* GeneticAlgorithm::resumeGA
resumeGA ==
    /\ ctlPc = "idle"
    /\ IF threadRunning /\ paused
       THEN /\ paused' = FALSE
            /\ pauseEvent' = TRUE
       ELSE UNCHANGED <<paused, pauseEvent>>
    /\ UNCHANGED <<threadRunning, shouldExit, populationInitialized, bestFitnessSoFar,
                   individuals, bestIndex, statisticsDirty, fitnessModel, enginePc,
                   offspring, genIndex, ctlPc, bridgeVars, apartVars, historyVars>>

(***************************************************************************)
(* GeneticAlgorithm::run, one shared-memory access per step                *)
(***************************************************************************)

engineFrame == <<paused, populationInitialized, bestFitnessSoFar, individuals,
                 bestIndex, statisticsDirty, fitnessModel, ctlPc, stopFrom, stopReturned>>

\* Moves the thread to another place of run() and changes nothing else.
goto(label) ==
    /\ enginePc' = label
    /\ UNCHANGED <<threadRunning, shouldExit, pauseEvent, offspring, genIndex,
                   engineFrame, bridgeVars, apartVars, pushedBy>>

\* Leaves run() on a true threadShouldExit().
exitRun ==
    /\ threadExit
    /\ UNCHANGED <<shouldExit, pauseEvent, engineFrame, bridgeVars, apartVars, pushedBy>>

\* pauseEvent.wait(100): returns on the signal (auto-reset) or after 100 ms.
waitPauseEvent(label) ==
    /\ pauseEvent' = FALSE
    /\ enginePc' = label
    /\ UNCHANGED <<threadRunning, shouldExit, offspring, engineFrame, bridgeVars, apartVars, pushedBy>>

\* Variant: the loop looks at paused before it looks at the exit flag.
run_top_pauseFirst ==
    /\ enginePc = "top"
    /\ IF paused THEN goto("pause_wait")
       ELSE IF shouldExit THEN exitRun ELSE goto("exit_check")

\* while (!threadShouldExit())
run_top ==
    /\ enginePc = "top"
    /\ IF shouldExit THEN exitRun ELSE goto("pause_check")

\* if (paused.load())
run_pause_check ==
    /\ enginePc = "pause_check"
    /\ IF paused THEN goto("pause_wait") ELSE goto("exit_check")

\* pauseEvent.wait(100); continue;
run_pause_wait ==
    /\ enginePc = "pause_wait"
    /\ waitPauseEvent("top")
    /\ UNCHANGED genIndex

\* the two threadShouldExit() checks before a generation
run_exit_check ==
    /\ enginePc = "exit_check"
    /\ IF shouldExit THEN exitRun ELSE goto("backpressure")

\* Variant: the loop starts a generation without looking at the mailbox.
run_backpressure_noBackoff ==
    /\ enginePc = "backpressure"
    /\ enginePc' = "gen_exit"
    /\ offspring' = <<>>
    /\ genIndex' = 0
    /\ UNCHANGED <<threadRunning, shouldExit, pauseEvent, engineFrame, bridgeVars, apartVars, pushedBy>>

\* if (parameterBridge->hasData()): back off, else start the offspring loop
run_backpressure ==
    /\ enginePc = "backpressure"
    /\ IF ready
       THEN goto("backoff_wait")
       ELSE /\ enginePc' = "gen_exit"
            /\ offspring' = <<>>
            /\ genIndex' = 0
            /\ UNCHANGED <<threadRunning, shouldExit, pauseEvent, engineFrame, bridgeVars, apartVars,
                           pushedBy>>

\* pauseEvent.wait(100); continue;  (the mailbox is full)
run_backoff_wait ==
    /\ enginePc = "backoff_wait"
    /\ waitPauseEvent("top")
    /\ UNCHANGED genIndex

\* offspring loop: i < OFFSPRING_PER_GENERATION, then if (threadShouldExit()) break
run_gen_exit ==
    /\ enginePc = "gen_exit"
    /\ IF genIndex < OffspringPerGeneration /\ ~shouldExit
       THEN goto("gen_pause")
       ELSE goto("post_gen")

\* offspring loop: if (paused.load())
run_gen_pause ==
    /\ enginePc = "gen_pause"
    /\ IF paused THEN goto("gen_pause_wait") ELSE goto("gen_child")

\* offspring loop: pauseEvent.wait(100); continue;  (the for loop increments i)
run_gen_pause_wait ==
    /\ enginePc = "gen_pause_wait"
    /\ waitPauseEvent("gen_exit")
    /\ genIndex' = genIndex + 1

\* offspring loop: select two parents, cross over, mutate, evaluate, push_back
run_gen_child ==
    /\ enginePc = "gen_child"
    /\ \E parent1Index \in TournamentSelection(individuals),
          parent2Index \in TournamentSelection(individuals),
          coins \in CoinPatterns,
          draw \in MutationDraws :
          LET crossed == UniformCrossover(individuals[parent1Index],
                                          individuals[parent2Index], coins)
              child == UniformMutation(crossed, draw)
          IN  \E fitness \in evaluate(fitnessModel, child.parameters) :
                 offspring' = Append(offspring, setFitness(child, fitness))
    /\ genIndex' = genIndex + 1
    /\ enginePc' = "gen_exit"
    /\ UNCHANGED <<threadRunning, shouldExit, pauseEvent, engineFrame, bridgeVars, apartVars, pushedBy>>

\* if (threadShouldExit()) break;  after the offspring loop
run_post_gen ==
    /\ enginePc = "post_gen"
    /\ IF shouldExit THEN exitRun ELSE goto("replace")

\* REPLACEMENT: the worst evaluated individuals are overwritten by the offspring
run_replace ==
    /\ enginePc = "replace"
    /\ IF offspring # <<>>
       THEN \E order \in SortedByFitness(individuals) :
               /\ individuals' = replaceWorst(individuals, offspring, order)
               /\ statisticsDirty' = TRUE
       ELSE UNCHANGED <<individuals, statisticsDirty>>
    /\ enginePc' = "publish"
    /\ UNCHANGED <<threadRunning, shouldExit, paused, pauseEvent, populationInitialized,
                   bestFitnessSoFar, bestIndex, fitnessModel, offspring, genIndex,
                   ctlPc, bridgeVars, apartVars, historyVars>>

\* PARAMETER BRIDGE UPDATE: push the best offspring; then the statistics update
\* (population->getBest()), the best-fitness tracker and the 10 ms sleep
run_publish ==
    /\ enginePc = "publish"
    /\ IF offspring # <<>>
       THEN /\ push(bestOffspring(offspring).parameters, bestOffspring(offspring).fitness)
            /\ pushedBy' = "run"
       ELSE UNCHANGED <<bridgeVars, apartVars, pushedBy>>
    /\ bestIndex' = updateStatistics(individuals)
    /\ statisticsDirty' = FALSE
    /\ bestFitnessSoFar' = IF getBestFitness(individuals) > bestFitnessSoFar
                           THEN getBestFitness(individuals)
                           ELSE bestFitnessSoFar
    /\ enginePc' = "top"
    /\ offspring' = <<>>
    /\ genIndex' = 0
    /\ UNCHANGED <<threadRunning, shouldExit, paused, pauseEvent, populationInitialized,
                   individuals, fitnessModel, ctlPc, stopFrom, stopReturned>>

(***************************************************************************)
(* The consumer of the bridge (message thread)                             *)
(***************************************************************************)

\* bridge->pop(params, fitness): takes the candidate if one is ready
consumer_pop ==
    /\ IF ready THEN pop ELSE UNCHANGED <<bridgeVars, apartVars>>
    /\ UNCHANGED <<gaVars, historyVars>>

\* bridge->clear()
consumer_clear ==
    /\ clear
    /\ UNCHANGED <<gaVars, historyVars>>

(***************************************************************************)
(* ParameterBridge, one statement at a time, called from several threads   *)
(***************************************************************************)

\* Number of push calls considered.
MaxPushes == 2

\* The threads calling push, and those calling pop and clear.
Producers == {"p1", "p2"}

Consumers == {"c1", "c2"}

BridgeThreads == Producers \cup Consumers

\* The k-th push call passes a candidate of its own: no two calls share a
\* parameter vector or a fitness.
CandidateParams(k) == <<k, k>>

CandidateFitness(k) == k

\* What a caller of pop has in its arguments before the call
\* (std::vector<float> output; float fitness = 0.0f).
FreshParams == <<>>

FreshFitness == 0

at(t, label) == bpc' = [bpc EXCEPT ![t] = label]

bridgeFrame == <<gaVars, historyVars, feedbackVars, componentVars>>

\* a thread calls push(params, fitness)
push_call(t) ==
    /\ t \in Producers
    /\ bpc[t] = "idle"
    /\ pushCount < MaxPushes
    /\ pushCount' = pushCount + 1
    /\ arg' = [arg EXCEPT ![t] = pushCount + 1]
    /\ at(t, "push_lock")
    /\ UNCHANGED <<bridgeVars, outParams, outFitness, popResult, popCount,
                   committed, overwrote, bridgeFrame>>

\* The lock is taken although it is held.
push_lock_notTaken(t) ==
    /\ bpc[t] = "push_lock"
    /\ mtx' = t
    /\ at(t, "push_params")
    /\ UNCHANGED <<parameters, storedFitness, ready, arg, outParams, outFitness,
                   popResult, pushCount, popCount, committed, overwrote,
                   bridgeFrame>>

\* std::lock_guard<std::mutex> lock(mtx);
push_lock(t) ==
    /\ bpc[t] = "push_lock"
    /\ mtx = "free"
    /\ mtx' = t
    /\ at(t, "push_params")
    /\ UNCHANGED <<parameters, storedFitness, ready, arg, outParams, outFitness,
                   popResult, pushCount, popCount, committed, overwrote,
                   bridgeFrame>>

\* parameters = params;
push_params(t) ==
    /\ bpc[t] = "push_params"
    /\ parameters' = CandidateParams(arg[t])
    /\ at(t, "push_fitness")
    /\ UNCHANGED <<storedFitness, ready, mtx, arg, outParams, outFitness,
                   popResult, pushCount, popCount, committed, overwrote,
                   bridgeFrame>>

\* storedFitness = fitness;
push_fitness(t) ==
    /\ bpc[t] = "push_fitness"
    /\ storedFitness' = CandidateFitness(arg[t])
    /\ at(t, "push_ready")
    /\ UNCHANGED <<parameters, ready, mtx, arg, outParams, outFitness,
                   popResult, pushCount, popCount, committed, overwrote,
                   bridgeFrame>>

\* ready.store(true, std::memory_order_release);
push_ready(t) ==
    /\ bpc[t] = "push_ready"
    /\ ready' = TRUE
    /\ committed' = arg[t]
    /\ overwrote' = ready
    /\ at(t, "push_unlock")
    /\ UNCHANGED <<parameters, storedFitness, mtx, arg, outParams, outFitness,
                   popResult, pushCount, popCount, bridgeFrame>>

\* the lock_guard's destructor; push returns
push_unlock(t) ==
    /\ bpc[t] = "push_unlock"
    /\ mtx' = "free"
    /\ at(t, "idle")
    /\ UNCHANGED <<parameters, storedFitness, ready, arg, outParams, outFitness,
                   popResult, pushCount, popCount, committed, overwrote,
                   bridgeFrame>>

\* a thread calls pop(params, fitness) with fresh arguments
pop_call(t) ==
    /\ t \in Consumers
    /\ bpc[t] = "idle"
    /\ outParams' = [outParams EXCEPT ![t] = FreshParams]
    /\ outFitness' = [outFitness EXCEPT ![t] = FreshFitness]
    /\ popResult' = [popResult EXCEPT ![t] = "none"]
    /\ at(t, "pop_fast")
    /\ UNCHANGED <<bridgeVars, arg, pushCount, popCount, committed, overwrote,
                   bridgeFrame>>

\* if (!ready.load(std::memory_order_acquire)) return false;
pop_fast(t) ==
    /\ bpc[t] = "pop_fast"
    /\ IF ~ready
       THEN /\ popResult' = [popResult EXCEPT ![t] = "false"]
            /\ at(t, "idle")
       ELSE /\ at(t, "pop_lock")
            /\ UNCHANGED popResult
    /\ UNCHANGED <<bridgeVars, arg, outParams, outFitness, pushCount, popCount,
                   committed, overwrote, bridgeFrame>>

\* std::lock_guard<std::mutex> lock(mtx);
pop_lock(t) ==
    /\ bpc[t] = "pop_lock"
    /\ mtx = "free"
    /\ mtx' = t
    /\ at(t, "pop_check")
    /\ UNCHANGED <<parameters, storedFitness, ready, arg, outParams, outFitness,
                   popResult, pushCount, popCount, committed, overwrote,
                   bridgeFrame>>

\* The flag is not read again under the lock.
pop_check_notRepeated(t) ==
    /\ bpc[t] = "pop_check"
    /\ at(t, "pop_params")
    /\ UNCHANGED <<bridgeVars, arg, outParams, outFitness, popResult, pushCount,
                   popCount, committed, overwrote, bridgeFrame>>

\* if (!ready.load(std::memory_order_relaxed)) return false;
pop_check(t) ==
    /\ bpc[t] = "pop_check"
    /\ IF ~ready
       THEN /\ popResult' = [popResult EXCEPT ![t] = "false"]
            /\ mtx' = "free"
            /\ at(t, "idle")
       ELSE /\ at(t, "pop_params")
            /\ UNCHANGED <<popResult, mtx>>
    /\ UNCHANGED <<parameters, storedFitness, ready, arg, outParams, outFitness,
                   pushCount, popCount, committed, overwrote, bridgeFrame>>

\* params = parameters;
pop_params(t) ==
    /\ bpc[t] = "pop_params"
    /\ outParams' = [outParams EXCEPT ![t] = parameters]
    /\ at(t, "pop_fitness")
    /\ UNCHANGED <<bridgeVars, arg, outFitness, popResult, pushCount, popCount,
                   committed, overwrote, bridgeFrame>>

\* The fitness argument is left as the caller passed it.
pop_fitness_notCopied(t) ==
    /\ bpc[t] = "pop_fitness"
    /\ at(t, "pop_ready")
    /\ UNCHANGED <<bridgeVars, arg, outParams, outFitness, popResult, pushCount,
                   popCount, committed, overwrote, bridgeFrame>>

\* fitness = storedFitness;
pop_fitness(t) ==
    /\ bpc[t] = "pop_fitness"
    /\ outFitness' = [outFitness EXCEPT ![t] = storedFitness]
    /\ at(t, "pop_ready")
    /\ UNCHANGED <<bridgeVars, arg, outParams, popResult, pushCount, popCount,
                   committed, overwrote, bridgeFrame>>

\* ready.store(false, std::memory_order_release);
\* the candidate taken is counted by the vector copied
pop_ready(t) ==
    /\ bpc[t] = "pop_ready"
    /\ ready' = FALSE
    /\ popCount' = IF outParams[t] # <<>> /\ outParams[t][1] \in DOMAIN popCount
                   THEN [popCount EXCEPT ![outParams[t][1]] = @ + 1]
                   ELSE popCount
    /\ at(t, "pop_unlock")
    /\ UNCHANGED <<parameters, storedFitness, mtx, arg, outParams, outFitness,
                   popResult, pushCount, committed, overwrote, bridgeFrame>>

\* return true; the lock_guard's destructor
pop_unlock(t) ==
    /\ bpc[t] = "pop_unlock"
    /\ mtx' = "free"
    /\ popResult' = [popResult EXCEPT ![t] = "true"]
    /\ at(t, "idle")
    /\ UNCHANGED <<parameters, storedFitness, ready, arg, outParams, outFitness,
                   pushCount, popCount, committed, overwrote, bridgeFrame>>

\* a thread calls clear()
clear_call(t) ==
    /\ t \in Consumers
    /\ bpc[t] = "idle"
    /\ at(t, "clear_lock")
    /\ UNCHANGED <<bridgeVars, arg, outParams, outFitness, popResult, pushCount,
                   popCount, committed, overwrote, bridgeFrame>>

\* std::lock_guard<std::mutex> lock(mtx);
clear_lock(t) ==
    /\ bpc[t] = "clear_lock"
    /\ mtx = "free"
    /\ mtx' = t
    /\ at(t, "clear_store")
    /\ UNCHANGED <<parameters, storedFitness, ready, arg, outParams, outFitness,
                   popResult, pushCount, popCount, committed, overwrote,
                   bridgeFrame>>

\* ready.store(false, std::memory_order_release);
clear_store(t) ==
    /\ bpc[t] = "clear_store"
    /\ ready' = FALSE
    /\ at(t, "clear_unlock")
    /\ UNCHANGED <<parameters, storedFitness, mtx, arg, outParams, outFitness,
                   popResult, pushCount, popCount, committed, overwrote,
                   bridgeFrame>>

\* the lock_guard's destructor; clear returns
clear_unlock(t) ==
    /\ bpc[t] = "clear_unlock"
    /\ mtx' = "free"
    /\ at(t, "idle")
    /\ UNCHANGED <<parameters, storedFitness, ready, arg, outParams, outFitness,
                   popResult, pushCount, popCount, committed, overwrote,
                   bridgeFrame>>

\* the statements of push, pop and clear, by thread
pushStep(t) ==
    \/ push_call(t)
    \/ push_lock(t)
    \/ push_params(t)
    \/ push_fitness(t)
    \/ push_ready(t)
    \/ push_unlock(t)

popStep(t) ==
    \/ pop_fast(t)
    \/ pop_lock(t)
    \/ pop_check(t)
    \/ pop_params(t)
    \/ pop_fitness(t)
    \/ pop_ready(t)
    \/ pop_unlock(t)

clearStep(t) ==
    \/ clear_call(t)
    \/ clear_lock(t)
    \/ clear_store(t)
    \/ clear_unlock(t)

(***************************************************************************)
(* MLPPreferenceModel: sendFeedback, the training thread, evaluate         *)
(***************************************************************************)

\* Number of sendFeedback calls considered.
MaxFeedback == 5

\* Stand-in for maxBufferSize (64 in the source).
MaxBufferSize == 2

\* Stand-in for saveDebounceCount (5 in the source).
SaveDebounceCount == 2

feedbackFrame == <<gaVars, bridgeVars, historyVars, callVars, componentVars>>

\* size_t index = ++sampleCount;
sendFeedback_count ==
    /\ callerPc = "idle"
    /\ sampleCount < MaxFeedback
    /\ sampleCount' = sampleCount + 1
    /\ callerIndex' = sampleCount + 1
    /\ callerPc' = "send_lock"
    /\ callSnapshot' = <<workerPc, item>>
    /\ UNCHANGED <<feedbackQueue, queueMutex, mlpMutex, fileLock, queueEvent,
                   replayBuffer, bufferIndex, lastSaveCount, trained, csvRows,
                   savedAt, workerPc, item, evalPc, ratePc, feedbackFrame>>

\* std::lock_guard<std::mutex> lock(queueMutex);
sendFeedback_lock ==
    /\ callerPc = "send_lock"
    /\ queueMutex = "free"
    /\ queueMutex' = "caller"
    /\ callerPc' = "send_push"
    /\ UNCHANGED <<feedbackQueue, sampleCount, mlpMutex, fileLock, queueEvent,
                   replayBuffer, bufferIndex, lastSaveCount, trained, csvRows,
                   savedAt, workerPc, item, callerIndex, evalPc, ratePc, callSnapshot,
                   feedbackFrame>>

\* feedbackQueue.push_back({genome, feedback, index}); the lock is released
sendFeedback_push ==
    /\ callerPc = "send_push"
    /\ feedbackQueue' = Append(feedbackQueue, callerIndex)
    /\ queueMutex' = "free"
    /\ callerPc' = "send_signal"
    /\ UNCHANGED <<sampleCount, mlpMutex, fileLock, queueEvent, replayBuffer,
                   bufferIndex, lastSaveCount, trained, csvRows, savedAt,
                   workerPc, item, callerIndex, evalPc, ratePc, callSnapshot,
                   feedbackFrame>>

\* queueEvent.signal(); sendFeedback returns
sendFeedback_signal ==
    /\ callerPc = "send_signal"
    /\ queueEvent' = TRUE
    /\ callerPc' = "idle"
    /\ callSnapshot' = <<"none", 0>>
    /\ UNCHANGED <<feedbackQueue, sampleCount, queueMutex, mlpMutex, fileLock,
                   replayBuffer, bufferIndex, lastSaveCount, trained, csvRows,
                   savedAt, workerPc, item, callerIndex, evalPc, ratePc, feedbackFrame>>

\* queueEvent.wait(100): returns when signalled or after 100 ms
worker_wait ==
    /\ workerPc = "wait"
    /\ queueEvent' = FALSE
    /\ workerPc' = "queue_lock"
    /\ UNCHANGED <<feedbackQueue, sampleCount, queueMutex, mlpMutex, fileLock,
                   replayBuffer, bufferIndex, lastSaveCount, trained, csvRows,
                   savedAt, item, callerPc, callerIndex, evalPc, ratePc, callSnapshot,
                   feedbackFrame>>

\* std::lock_guard<std::mutex> lock(queueMutex);
worker_queue_lock ==
    /\ workerPc = "queue_lock"
    /\ queueMutex = "free"
    /\ queueMutex' = "worker"
    /\ workerPc' = "dequeue"
    /\ UNCHANGED <<feedbackQueue, sampleCount, mlpMutex, fileLock, queueEvent,
                   replayBuffer, bufferIndex, lastSaveCount, trained, csvRows,
                   savedAt, item, callerPc, callerIndex, evalPc, ratePc, callSnapshot,
                   feedbackFrame>>

\* The queue stays locked while the item is processed.
worker_dequeue_keepsLock ==
    /\ workerPc = "dequeue"
    /\ IF feedbackQueue # <<>>
       THEN /\ item' = Head(feedbackQueue)
            /\ feedbackQueue' = Tail(feedbackQueue)
            /\ workerPc' = "train_lock"
            /\ UNCHANGED queueMutex
       ELSE /\ workerPc' = "wait"
            /\ queueMutex' = "free"
            /\ UNCHANGED <<item, feedbackQueue>>
    /\ UNCHANGED <<sampleCount, mlpMutex, fileLock, queueEvent, replayBuffer,
                   bufferIndex, lastSaveCount, trained, csvRows, savedAt,
                   callerPc, callerIndex, evalPc, ratePc, callSnapshot,
                   feedbackFrame>>

\* the block under queueMutex: take the front item if there is one; then
\* if (hasItem) processQueuedFeedback(item), else back to the loop's top
worker_dequeue ==
    /\ workerPc = "dequeue"
    /\ IF feedbackQueue # <<>>
       THEN /\ item' = Head(feedbackQueue)
            /\ feedbackQueue' = Tail(feedbackQueue)
            /\ workerPc' = "train_lock"
       ELSE /\ workerPc' = "wait"
            /\ UNCHANGED <<item, feedbackQueue>>
    /\ queueMutex' = "free"
    /\ UNCHANGED <<sampleCount, mlpMutex, fileLock, queueEvent, replayBuffer,
                   bufferIndex, lastSaveCount, trained, csvRows, savedAt,
                   callerPc, callerIndex, evalPc, ratePc, callSnapshot,
                   feedbackFrame>>

\* std::lock_guard<std::mutex> lock(mlpMutex); (first block)
worker_train_lock ==
    /\ workerPc = "train_lock"
    /\ mlpMutex = "free"
    /\ mlpMutex' = "worker"
    /\ workerPc' = "train"
    /\ UNCHANGED <<feedbackQueue, sampleCount, queueMutex, fileLock, queueEvent,
                   replayBuffer, bufferIndex, lastSaveCount, trained, csvRows,
                   savedAt, item, callerPc, callerIndex, evalPc, ratePc, callSnapshot,
                   feedbackFrame>>

\* predictions, then mlpGenome.train and mlpAudio.train; the lock is released
worker_train ==
    /\ workerPc = "train"
    /\ trained' = Append(trained, item)
    /\ mlpMutex' = "free"
    /\ workerPc' = "buffer"
    /\ UNCHANGED <<feedbackQueue, sampleCount, queueMutex, fileLock, queueEvent,
                   replayBuffer, bufferIndex, lastSaveCount, csvRows, savedAt,
                   item, callerPc, callerIndex, evalPc, ratePc, callSnapshot,
                   feedbackFrame>>

\* The write position is never advanced: a full buffer is always
\* overwritten in its first slot.
worker_buffer_indexStuck ==
    /\ workerPc = "buffer"
    /\ IF Len(replayBuffer) < MaxBufferSize
       THEN /\ replayBuffer' = Append(replayBuffer, item)
            /\ UNCHANGED bufferIndex
       ELSE /\ replayBuffer' = [replayBuffer EXCEPT ![bufferIndex + 1] = item]
            /\ UNCHANGED bufferIndex
    /\ workerPc' = "replay_lock"
    /\ UNCHANGED <<feedbackQueue, sampleCount, queueMutex, mlpMutex, fileLock,
                   queueEvent, lastSaveCount, trained, csvRows, savedAt, item,
                   callerPc, callerIndex, evalPc, ratePc, callSnapshot,
                   feedbackFrame>>

\* the replay buffer: append until full, then overwrite round-robin
worker_buffer ==
    /\ workerPc = "buffer"
    /\ IF Len(replayBuffer) < MaxBufferSize
       THEN /\ replayBuffer' = Append(replayBuffer, item)
            /\ UNCHANGED bufferIndex
       ELSE /\ replayBuffer' = [replayBuffer EXCEPT ![bufferIndex + 1] = item]
            /\ bufferIndex' = (bufferIndex + 1) % MaxBufferSize
    /\ workerPc' = "replay_lock"
    /\ UNCHANGED <<feedbackQueue, sampleCount, queueMutex, mlpMutex, fileLock,
                   queueEvent, lastSaveCount, trained, csvRows, savedAt, item,
                   callerPc, callerIndex, evalPc, ratePc, callSnapshot,
                   feedbackFrame>>

\* std::lock_guard<std::mutex> lock(mlpMutex); (replay block)
worker_replay_lock ==
    /\ workerPc = "replay_lock"
    /\ mlpMutex = "free"
    /\ mlpMutex' = "worker"
    /\ workerPc' = "replay"
    /\ UNCHANGED <<feedbackQueue, sampleCount, queueMutex, fileLock, queueEvent,
                   replayBuffer, bufferIndex, lastSaveCount, trained, csvRows,
                   savedAt, item, callerPc, callerIndex, evalPc, ratePc, callSnapshot,
                   feedbackFrame>>

\* replayTrain(); the lock is released
worker_replay ==
    /\ workerPc = "replay"
    /\ mlpMutex' = "free"
    /\ workerPc' = "csv_lock"
    /\ UNCHANGED <<feedbackQueue, sampleCount, queueMutex, fileLock, queueEvent,
                   replayBuffer, bufferIndex, lastSaveCount, trained, csvRows,
                   savedAt, item, callerPc, callerIndex, evalPc, ratePc, callSnapshot,
                   feedbackFrame>>

\* appendToCSV: const juce::ScopedLock lock(fileLock);
worker_csv_lock ==
    /\ workerPc = "csv_lock"
    /\ fileLock = "free"
    /\ fileLock' = "worker"
    /\ workerPc' = "csv"
    /\ UNCHANGED <<feedbackQueue, sampleCount, queueMutex, mlpMutex, queueEvent,
                   replayBuffer, bufferIndex, lastSaveCount, trained, csvRows,
                   savedAt, item, callerPc, callerIndex, evalPc, ratePc, callSnapshot,
                   feedbackFrame>>

\* appendToCSV: the row is written; the lock is released
worker_csv ==
    /\ workerPc = "csv"
    /\ csvRows' = Append(csvRows, item)
    /\ fileLock' = "free"
    /\ workerPc' = "save_check"
    /\ UNCHANGED <<feedbackQueue, sampleCount, queueMutex, mlpMutex, queueEvent,
                   replayBuffer, bufferIndex, lastSaveCount, trained, savedAt,
                   item, callerPc, callerIndex, evalPc, ratePc, callSnapshot,
                   feedbackFrame>>

\* if (item.sampleIndex - lastSaveCount >= saveDebounceCount)
worker_save_check ==
    /\ workerPc = "save_check"
    /\ workerPc' = IF item - lastSaveCount >= SaveDebounceCount
                   THEN "save_lock"
                   ELSE "wait"
    /\ UNCHANGED <<feedbackQueue, sampleCount, queueMutex, mlpMutex, fileLock,
                   queueEvent, replayBuffer, bufferIndex, lastSaveCount,
                   trained, csvRows, savedAt, item, callerPc, callerIndex,
                   evalPc, ratePc, callSnapshot, feedbackFrame>>

\* std::lock_guard<std::mutex> lock(mlpMutex); (save block)
worker_save_lock ==
    /\ workerPc = "save_lock"
    /\ mlpMutex = "free"
    /\ mlpMutex' = "worker"
    /\ workerPc' = "save"
    /\ UNCHANGED <<feedbackQueue, sampleCount, queueMutex, fileLock, queueEvent,
                   replayBuffer, bufferIndex, lastSaveCount, trained, csvRows,
                   savedAt, item, callerPc, callerIndex, evalPc, ratePc, callSnapshot,
                   feedbackFrame>>

\* saveWeights(); lastSaveCount = item.sampleIndex; the lock is released
worker_save ==
    /\ workerPc = "save"
    /\ savedAt' = Append(savedAt, item)
    /\ lastSaveCount' = item
    /\ mlpMutex' = "free"
    /\ workerPc' = "wait"
    /\ UNCHANGED <<feedbackQueue, sampleCount, queueMutex, fileLock, queueEvent,
                   replayBuffer, bufferIndex, trained, csvRows, item, callerPc,
                   callerIndex, evalPc, ratePc, callSnapshot,
                   feedbackFrame>>

\* The predictions are made without waiting for the lock.
evaluate_lock_notTaken ==
    /\ evalPc = "idle"
    /\ mlpMutex' = "evaluator"
    /\ evalPc' = "predict"
    /\ UNCHANGED <<feedbackQueue, sampleCount, queueMutex, fileLock, queueEvent,
                   replayBuffer, bufferIndex, lastSaveCount, trained, csvRows,
                   savedAt, workerPc, item, callerPc, callerIndex,
                   callSnapshot, ratePc, feedbackFrame>>

\* MLPPreferenceModel::evaluate: std::lock_guard<std::mutex> lock(mlpMutex);
evaluate_lock ==
    /\ evalPc = "idle"
    /\ mlpMutex = "free"
    /\ mlpMutex' = "evaluator"
    /\ evalPc' = "predict"
    /\ UNCHANGED <<feedbackQueue, sampleCount, queueMutex, fileLock, queueEvent,
                   replayBuffer, bufferIndex, lastSaveCount, trained, csvRows,
                   savedAt, workerPc, item, callerPc, callerIndex,
                   callSnapshot, ratePc, feedbackFrame>>

\* MLPPreferenceModel::evaluate: the predictions; the lock is released
evaluate_predict ==
    /\ evalPc = "predict"
    /\ mlpMutex' = "free"
    /\ evalPc' = "idle"
    /\ UNCHANGED <<feedbackQueue, sampleCount, queueMutex, fileLock, queueEvent,
                   replayBuffer, bufferIndex, lastSaveCount, trained, csvRows,
                   savedAt, workerPc, item, callerPc, callerIndex,
                   callSnapshot, ratePc, feedbackFrame>>

\* MLPPreferenceModel::setSampleRate: std::lock_guard<std::mutex> lock(mlpMutex);
setSampleRate_lock ==
    /\ ratePc = "idle"
    /\ mlpMutex = "free"
    /\ mlpMutex' = "rate"
    /\ ratePc' = "set"
    /\ UNCHANGED <<feedbackQueue, sampleCount, queueMutex, fileLock, queueEvent,
                   replayBuffer, bufferIndex, lastSaveCount, trained, csvRows,
                   savedAt, workerPc, item, callerPc, callerIndex, evalPc,
                   callSnapshot, feedbackFrame>>

\* audioFeatureCache->setSampleRate(newSampleRate); the lock is released
setSampleRate_set ==
    /\ ratePc = "set"
    /\ mlpMutex' = "free"
    /\ ratePc' = "idle"
    /\ UNCHANGED <<feedbackQueue, sampleCount, queueMutex, fileLock, queueEvent,
                   replayBuffer, bufferIndex, lastSaveCount, trained, csvRows,
                   savedAt, workerPc, item, callerPc, callerIndex, evalPc,
                   callSnapshot, feedbackFrame>>

\* MLPPreferenceModel::sendFeedback, by statement
sendFeedback ==
    \/ sendFeedback_count
    \/ sendFeedback_lock
    \/ sendFeedback_push
    \/ sendFeedback_signal

(***************************************************************************)
(* MLP: weights, Adam state, serialisation; the persisted weight files     *)
(***************************************************************************)

\* Stand-ins for MLP's INPUT_SIZE and HIDDEN_SIZE.
InputSize == 2

HiddenSize == 1

\* Number of train calls considered per network.
MaxTimestep == 1

\* Number of models constructed one after the other on the same files.
MaxSessions == 2

\* mlpGenome and mlpAudio
Networks == {"genome", "audio"}

\* Weight values are on an integer grid.
Zeros(n) == [i \in 1..n |-> 0]

\* MLP::MLP and MLP::initializeWeights: the input-to-hidden weights are drawn
\* (here all equal to the draw x), everything else is zero.
FreshNet(x) ==
    [weightsIH |-> [i \in 1..(InputSize * HiddenSize) |-> x],
     biasH     |-> Zeros(HiddenSize),
     weightsHO |-> Zeros(HiddenSize),
     biasO     |-> 0,
     mIH       |-> Zeros(InputSize * HiddenSize),
     mBiasH    |-> Zeros(HiddenSize),
     mHO       |-> Zeros(HiddenSize),
     mBiasO    |-> 0,
     vIH       |-> Zeros(InputSize * HiddenSize),
     vBiasH    |-> Zeros(HiddenSize),
     vHO       |-> Zeros(HiddenSize),
     vBiasO    |-> 0,
     timestep  |-> 0]

\* The draws considered for the Xavier initialisation.
XavierDraws == {-1, 1}

\* MLP::getWeightCount
getWeightCount ==
    LET baseCount == (InputSize * HiddenSize) + HiddenSize + HiddenSize + 1
        adamCount == 2 * ((InputSize * HiddenSize) + HiddenSize + HiddenSize + 1)
    IN  baseCount + adamCount + 1

\* MLP::getWeights
getWeights(net) ==
    net.weightsIH \o net.biasH \o net.weightsHO \o <<net.biasO>>
        \o net.mIH \o net.mBiasH \o net.mHO \o <<net.mBiasO>>
        \o net.vIH \o net.vBiasH \o net.vHO \o <<net.vBiasO>>
        \o <<net.timestep>>

\* the n values of w that follow the first idx values (weights[idx++], n times)
Take(w, idx, n) == [i \in 1..n |-> w[idx + i]]

\* The length check lets longer vectors through.
setWeights_acceptsLonger(net, w) ==
    IF Len(w) < getWeightCount
    THEN [ok |-> FALSE, net |-> net]
    ELSE LET ih == InputSize * HiddenSize
             h  == HiddenSize
             blk == ih + h + h + 1
         IN  [ok  |-> TRUE,
              net |-> [weightsIH |-> Take(w, 0, ih),
                       biasH     |-> Take(w, ih, h),
                       weightsHO |-> Take(w, ih + h, h),
                       biasO     |-> w[ih + h + h + 1],
                       mIH       |-> Take(w, blk, ih),
                       mBiasH    |-> Take(w, blk + ih, h),
                       mHO       |-> Take(w, blk + ih + h, h),
                       mBiasO    |-> w[blk + ih + h + h + 1],
                       vIH       |-> Take(w, 2 * blk, ih),
                       vBiasH    |-> Take(w, 2 * blk + ih, h),
                       vHO       |-> Take(w, 2 * blk + ih + h, h),
                       vBiasO    |-> w[2 * blk + ih + h + h + 1],
                       timestep  |-> w[3 * blk + 1]]]

\* MLP::setWeights: the value returned and the network afterwards
setWeights(net, w) ==
    IF Len(w) # getWeightCount
    THEN [ok |-> FALSE, net |-> net]
    ELSE LET ih == InputSize * HiddenSize
             h  == HiddenSize
             blk == ih + h + h + 1
         IN  [ok  |-> TRUE,
              net |-> [weightsIH |-> Take(w, 0, ih),
                       biasH     |-> Take(w, ih, h),
                       weightsHO |-> Take(w, ih + h, h),
                       biasO     |-> w[ih + h + h + 1],
                       mIH       |-> Take(w, blk, ih),
                       mBiasH    |-> Take(w, blk + ih, h),
                       mHO       |-> Take(w, blk + ih + h, h),
                       mBiasO    |-> w[blk + ih + h + h + 1],
                       vIH       |-> Take(w, 2 * blk, ih),
                       vBiasH    |-> Take(w, 2 * blk + ih, h),
                       vHO       |-> Take(w, 2 * blk + ih + h, h),
                       vBiasO    |-> w[2 * blk + ih + h + h + 1],
                       timestep  |-> w[3 * blk + 1]]]

RECURSIVE SumTo(_, _)
SumTo(f, n) == IF n = 0 THEN 0 ELSE f[n] + SumTo(f, n - 1)

relu(x) == IF x > 0 THEN x ELSE 0

\* MLP::predict up to the final sigmoid: zOutput.  The prediction is
\* sigmoid(zOutput), which is 0.5 exactly when zOutput is 0.
zOutput(net, input) ==
    LET zHidden == [j \in 1..HiddenSize |->
                       net.biasH[j]
                       + SumTo([i \in 1..InputSize |->
                                   input[i] * net.weightsIH[(i - 1) * HiddenSize + j]],
                               InputSize)]
        aHidden == [j \in 1..HiddenSize |-> relu(zHidden[j])]
    IN  net.biasO + SumTo([j \in 1..HiddenSize |-> aHidden[j] * net.weightsHO[j]],
                          HiddenSize)

\* The inputs predictions are compared on.
ProbeInputs == {[i \in 1..InputSize |-> 1], [i \in 1..InputSize |-> 0]}

\* MLP::train, on the grid: the timestep advances, and the output layer, its
\* bias and their Adam moments move by the sign d of the output error; the
\* input layer moves only through weightsHO, which is zero in a fresh network.
train(net, d) ==
    [net EXCEPT !.timestep  = @ + 1,
                !.weightsHO = [j \in 1..HiddenSize |-> @[j] - d],
                !.biasO     = @ - d,
                !.mHO       = [j \in 1..HiddenSize |-> d],
                !.vHO       = [j \in 1..HiddenSize |-> 1],
                !.mBiasO    = d,
                !.vBiasO    = 1]

\* A persisted weight file: whether it exists, whether it opens, the 4-byte
\* count at its start, the floats that follow.
AbsentFile == [exists |-> FALSE, opens |-> FALSE, count |-> 0, values |-> <<>>]

\* one network's part of MLPPreferenceModel::loadWeights
loadNetwork(net, file) ==
    IF ~file.exists
    THEN net
    ELSE IF ~file.opens
    THEN net
    ELSE IF file.count # getWeightCount
    THEN net
    ELSE \* std::vector<float> weights(count) is zero-filled; stream.read
         \* fills as many values as the file holds
         LET weights == [i \in 1..file.count |->
                            IF i <= Len(file.values) THEN file.values[i] ELSE 0]
         IN  setWeights(net, weights).net

\* one network's part of MLPPreferenceModel::saveWeights
saveNetwork(net, file) ==
    IF file.exists /\ ~file.opens
    THEN file
    ELSE [exists |-> TRUE, opens |-> TRUE,
          count |-> Len(getWeights(net)), values |-> getWeights(net)]

\* The vectors handed to setWeights: of the right length, one shorter, one
\* longer, all entries distinct.
WeightVectors ==
    {[i \in 1..n |-> b + i] : n \in {getWeightCount - 1, getWeightCount, getWeightCount + 1},
                              b \in {0, 100}}

\* What may happen to a weight file while no model has it open.
damaged(file, kind) ==
    CASE kind = "deleted"    -> AbsentFile
      [] kind = "unreadable" -> [file EXCEPT !.opens = FALSE]
      [] kind = "truncated"  -> [file EXCEPT !.values = SubSeq(@, 1, Len(@) - 1)]
      [] kind = "emptied"    -> [file EXCEPT !.count = 0, !.values = <<>>]
      [] kind = "resized"    -> [file EXCEPT !.count = @ + 1, !.values = Append(@, 0)]

DamageKinds == {"deleted", "unreadable", "truncated", "emptied", "resized"}

mlpFrame == <<gaVars, bridgeVars, historyVars, callVars, feedbackVars, cacheVars,
              datasetVars, individualVars,
        repaired, replay>>

\* MLPPreferenceModel::MLPPreferenceModel: two fresh networks, then loadWeights
model_construct ==
    /\ ~modelAlive
    /\ sessions < MaxSessions
    /\ sessions' = sessions + 1
    /\ \E x \in [Networks -> XavierDraws] :
           nets' = [n \in Networks |-> loadNetwork(FreshNet(x[n]), weightFiles[n])]
    /\ modelAlive' = TRUE
    /\ lastOp' = "construct"
    /\ UNCHANGED <<weightFiles, setArg, setResult, mlpFrame>>

\* a train call on one network
model_train ==
    /\ modelAlive
    /\ \E n \in Networks : \E d \in {1} :
           /\ nets[n].timestep < MaxTimestep
           /\ nets' = [nets EXCEPT ![n] = train(@, d)]
    /\ lastOp' = "train"
    /\ UNCHANGED <<weightFiles, modelAlive, sessions, setArg, setResult, mlpFrame>>

\* MLPPreferenceModel::saveWeights
model_saveWeights ==
    /\ modelAlive
    /\ weightFiles' = [n \in Networks |-> saveNetwork(nets[n], weightFiles[n])]
    /\ lastOp' = "save"
    /\ UNCHANGED <<nets, modelAlive, sessions, setArg, setResult, mlpFrame>>

\* MLPPreferenceModel::~MLPPreferenceModel: the final save
model_destroy ==
    /\ modelAlive
    /\ weightFiles' = [n \in Networks |-> saveNetwork(nets[n], weightFiles[n])]
    /\ modelAlive' = FALSE
    /\ lastOp' = "destroy"
    /\ UNCHANGED <<nets, sessions, setArg, setResult, mlpFrame>>

\* a caller hands a vector to MLP::setWeights
mlp_setWeights ==
    /\ modelAlive
    /\ \E n \in Networks : \E w \in WeightVectors :
           /\ setArg' = [network |-> n, weights |-> w]
           /\ setResult' = setWeights(nets[n], w).ok
           /\ nets' = [nets EXCEPT ![n] = setWeights(@, w).net]
    /\ lastOp' = "setWeights"
    /\ UNCHANGED <<weightFiles, modelAlive, sessions, mlpFrame>>

\* a weight file is deleted, cut short or replaced between two sessions
file_damage ==
    /\ ~modelAlive
    /\ \E n \in Networks : \E kind \in DamageKinds :
           /\ weightFiles[n].exists
           /\ weightFiles[n].opens
           /\ weightFiles[n].count = getWeightCount
           /\ Len(weightFiles[n].values) = getWeightCount
           /\ weightFiles' = [weightFiles EXCEPT ![n] = damaged(@, kind)]
    /\ lastOp' = "damage"
    /\ UNCHANGED <<nets, modelAlive, sessions, setArg, setResult, mlpFrame>>

(***************************************************************************)
(* AudioFeatureCache                                                       *)
(***************************************************************************)

\* Stand-in for maxCacheSize (128 in the source).
MaxCacheSize == 2

\* Number of calls on the cache considered.
MaxCacheCalls == 6

\* The genomes handed to the cache: enough distinct ones to overflow it.
CacheGenomes == 1..(MaxCacheSize + 2)

\* AudioFeatureCache::hashGenome.  The hash folds the genome's float bits
\* into one size_t, so distinct genomes may share a hash: the last genome
\* shares the hash of the first.
hashGenome(genome) == IF genome = MaxCacheSize + 2 THEN 1 ELSE genome

\* The sample rates the cache is switched between.
SampleRates == {44100, 48000}

\* AudioFeatureCache::extractFeatures: the normalised features rendered for
\* a genome at a sample rate.
extractFeatures(genome, rate) == <<genome, rate>>

\* the keys of the LRU list
lruKeys == {lruOrder[i] : i \in 1..Len(lruOrder)}

\* lruOrder.erase(lruMap[hash]): the node the iterator of hash points to is
\* the front-most one holding hash
eraseNode(order, hash) ==
    LET at1 == CHOOSE i \in 1..Len(order) :
                   order[i] = hash /\ \A j \in 1..(i - 1) : order[j] # hash
    IN  SubSeq(order, 1, at1 - 1) \o SubSeq(order, at1 + 1, Len(order))

\* the map m without key k / with key k set to v
without(m, k) == [x \in (DOMAIN m) \ {k} |-> m[x]]

with(m, k, v) == [x \in (DOMAIN m) \cup {k} |-> IF x = k THEN v ELSE m[x]]

\* The most recently used entry is evicted.
evictLRU_takesFront(c) ==
    IF c.lruOrder = <<>>
    THEN c
    ELSE LET lruHash == Head(c.lruOrder)
         IN  [cache    |-> without(c.cache, lruHash),
              lruOrder |-> Tail(c.lruOrder),
              lruMap   |-> c.lruMap \ {lruHash}]

\* AudioFeatureCache::evictLRU, on the three containers
evictLRU(c) ==
    IF c.lruOrder = <<>>
    THEN c
    ELSE LET lruHash == c.lruOrder[Len(c.lruOrder)]
         IN  [cache    |-> without(c.cache, lruHash),
              lruOrder |-> SubSeq(c.lruOrder, 1, Len(c.lruOrder) - 1),
              lruMap   |-> c.lruMap \ {lruHash}]

cacheFrame == <<gaVars, bridgeVars, historyVars, callVars, feedbackVars, mlpVars,
                datasetVars, individualVars,
        repaired, replay>>

\* the caller's record of a call: its number, what was called, with what
called(op, genome) ==
    /\ cacheCalls < MaxCacheCalls
    /\ cacheCalls' = cacheCalls + 1
    /\ cacheCall' = [op |-> op, genome |-> genome]

\* The cache is let grow one entry past its capacity before evicting.
cache_getFeatures_evictsLate ==
    \E genome \in CacheGenomes :
        LET hash == hashGenome(genome) IN
        /\ called("getFeatures", genome)
        /\ lastAccess' = with(lastAccess, hash, cacheCalls + 1)
        /\ IF hash \in DOMAIN cache
           THEN /\ cacheHits' = cacheHits + 1
                /\ lruOrder' = <<hash>> \o eraseNode(lruOrder, hash)
                /\ lruMap' = lruMap \cup {hash}
                /\ cacheReturn' = cache[hash]
                /\ UNCHANGED <<cache, cacheMisses, renders>>
           ELSE LET features == extractFeatures(genome, sampleRate)
                    kept == IF Cardinality(DOMAIN cache) > MaxCacheSize
                            THEN evictLRU([cache |-> cache, lruOrder |-> lruOrder,
                                           lruMap |-> lruMap])
                            ELSE [cache |-> cache, lruOrder |-> lruOrder,
                                  lruMap |-> lruMap]
                IN  /\ cacheMisses' = cacheMisses + 1
                    /\ renders' = renders + 1
                    /\ cache' = with(kept.cache, hash, features)
                    /\ lruOrder' = <<hash>> \o kept.lruOrder
                    /\ lruMap' = kept.lruMap \cup {hash}
                    /\ cacheReturn' = features
                    /\ UNCHANGED cacheHits
        /\ UNCHANGED <<sampleRate, cacheFrame>>

\* The hit is counted as a miss and the features are rendered again.
cache_getFeatures_rendersOnHit ==
    \E genome \in CacheGenomes :
        LET hash == hashGenome(genome) IN
        /\ called("getFeatures", genome)
        /\ lastAccess' = with(lastAccess, hash, cacheCalls + 1)
        /\ IF hash \in DOMAIN cache
           THEN /\ cacheMisses' = cacheMisses + 1
                /\ renders' = renders + 1
                /\ lruOrder' = <<hash>> \o eraseNode(lruOrder, hash)
                /\ lruMap' = lruMap \cup {hash}
                /\ cacheReturn' = extractFeatures(genome, sampleRate)
                /\ UNCHANGED <<cache, cacheHits>>
           ELSE LET features == extractFeatures(genome, sampleRate)
                    kept == IF Cardinality(DOMAIN cache) >= MaxCacheSize
                            THEN evictLRU([cache |-> cache, lruOrder |-> lruOrder,
                                           lruMap |-> lruMap])
                            ELSE [cache |-> cache, lruOrder |-> lruOrder,
                                  lruMap |-> lruMap]
                IN  /\ cacheMisses' = cacheMisses + 1
                    /\ renders' = renders + 1
                    /\ cache' = with(kept.cache, hash, features)
                    /\ lruOrder' = <<hash>> \o kept.lruOrder
                    /\ lruMap' = kept.lruMap \cup {hash}
                    /\ cacheReturn' = features
                    /\ UNCHANGED cacheHits
        /\ UNCHANGED <<sampleRate, cacheFrame>>

\* AudioFeatureCache::getFeatures
cache_getFeatures ==
    \E genome \in CacheGenomes :
        LET hash == hashGenome(genome) IN
        /\ called("getFeatures", genome)
        /\ lastAccess' = with(lastAccess, hash, cacheCalls + 1)
        /\ IF hash \in DOMAIN cache
           THEN \* cache hit: move to the front of the LRU list
                /\ cacheHits' = cacheHits + 1
                /\ lruOrder' = <<hash>> \o eraseNode(lruOrder, hash)
                /\ lruMap' = lruMap \cup {hash}
                /\ cacheReturn' = cache[hash]
                /\ UNCHANGED <<cache, cacheMisses, renders>>
           ELSE \* cache miss: render, evict if necessary, insert
                LET features == extractFeatures(genome, sampleRate)
                    kept == IF Cardinality(DOMAIN cache) >= MaxCacheSize
                            THEN evictLRU([cache |-> cache, lruOrder |-> lruOrder,
                                           lruMap |-> lruMap])
                            ELSE [cache |-> cache, lruOrder |-> lruOrder,
                                  lruMap |-> lruMap]
                IN  /\ cacheMisses' = cacheMisses + 1
                    /\ renders' = renders + 1
                    /\ cache' = with(kept.cache, hash, features)
                    /\ lruOrder' = <<hash>> \o kept.lruOrder
                    /\ lruMap' = kept.lruMap \cup {hash}
                    /\ cacheReturn' = features
                    /\ UNCHANGED cacheHits
        /\ UNCHANGED <<sampleRate, cacheFrame>>

\* AudioFeatureCache::hasCached
cache_hasCached ==
    \E genome \in CacheGenomes :
        /\ called("hasCached", genome)
        /\ cacheReturn' = (hashGenome(genome) \in DOMAIN cache)
        /\ UNCHANGED <<cache, lruOrder, lruMap, cacheHits, cacheMisses,
                       sampleRate, renders, lastAccess, cacheFrame>>

\* AudioFeatureCache::clear, on the containers and the counters
cleared ==
    /\ cache' = <<>>
    /\ lruOrder' = <<>>
    /\ lruMap' = {}
    /\ cacheHits' = 0
    /\ cacheMisses' = 0
    /\ lastAccess' = <<>>

\* AudioFeatureCache::clear
cache_clear ==
    /\ called("clear", 0)
    /\ cleared
    /\ cacheReturn' = FALSE
    /\ UNCHANGED <<sampleRate, renders, cacheFrame>>

\* AudioFeatureCache::setSampleRate
cache_setSampleRate ==
    \E newSampleRate \in SampleRates :
        /\ called("setSampleRate", 0)
        /\ cacheReturn' = FALSE
        /\ IF newSampleRate = sampleRate
           THEN UNCHANGED <<cache, lruOrder, lruMap, cacheHits, cacheMisses,
                            sampleRate, lastAccess>>
           ELSE /\ sampleRate' = newSampleRate
                /\ cleared
        /\ UNCHANGED <<renders, cacheFrame>>

(***************************************************************************)
(* The feedback dataset file and its schema header                         *)
(***************************************************************************)

\* Seconds of wall-clock time told apart by the backup name's timestamp.
MaxTime == 1

\* Number of models constructed over the dataset directory.
MaxConstructions == 3

\* Number of rows appended by the models.
MaxRows == 2

\* Number of times a file from elsewhere is put in the dataset's place.
MaxPuts == 2

\* The parameter-name lists models are constructed with; getHeaderString()
\* is made of the names, so each list has its own header.
Schemas == {"A", "B"}

\* getHeaderString(), as a line of the file
getHeaderString(schema) == [kind |-> "header", schema |-> schema, pad |-> FALSE, index |-> 0]

\* a data row written under a schema
dataRow(schema, index) == [kind |-> "row", schema |-> schema, pad |-> FALSE, index |-> index]

\* juce::String::trim(): surrounding whitespace is dropped
trim(line) == [line EXCEPT !.pad = FALSE]

\* no file at a path
NoFile == [exists |-> FALSE, lines |-> <<>>]

\* what a model may find at the dataset's path: an empty file, a file of
\* schema A whose header line carries trailing whitespace, a file of an
\* older schema, and rows without any header
FoundFiles ==
    {[exists |-> TRUE, lines |-> <<>>],
     [exists |-> TRUE, lines |-> <<[getHeaderString("A") EXCEPT !.pad = TRUE], dataRow("A", 0)>>],
     [exists |-> TRUE, lines |-> <<getHeaderString("old"), dataRow("old", 0)>>],
     [exists |-> TRUE, lines |-> <<dataRow("old", 0)>>]}

datasetFrame == <<gaVars, bridgeVars, historyVars, callVars, feedbackVars, mlpVars, cacheVars,
                  individualVars,
        repaired, replay>>

\* datasetFile.moveFileTo(backupFile), the backup named by the second on
\* the clock: on success the file takes the backup's place, replacing
\* what was there; on failure nothing moves.  The caller ignores which.
moveFileTo(file, backups, moved) ==
    IF moved /\ file.exists
    THEN [file |-> NoFile, backups |-> [backups EXCEPT ![clock] = file]]
    ELSE [file |-> file, backups |-> backups]

\* datasetFile.create(); datasetFile.appendText(line)
createAndAppend(file, line) == [exists |-> TRUE, lines |-> Append(file.lines, line)]

\* a model of the given class and schema is constructed
constructed(class, schema) ==
    /\ datasetOwner = "none"
    /\ constructions < MaxConstructions
    /\ constructions' = constructions + 1
    /\ datasetOwner' = class
    /\ datasetSchema' = schema

\* MLPPreferenceModel::initCSV, in the constructor
initCSV ==
    \E schema \in Schemas, moved \in BOOLEAN :
        /\ constructed("mlp", schema)
        /\ IF /\ datasetFile.exists
              /\ Len(datasetFile.lines) > 0
              /\ trim(datasetFile.lines[1]) = trim(getHeaderString(schema))
           THEN UNCHANGED <<datasetFile, backupFiles>>
           ELSE LET rotated == moveFileTo(datasetFile, backupFiles, moved)
                IN  /\ datasetFile' = createAndAppend(rotated.file, getHeaderString(schema))
                    /\ backupFiles' = rotated.backups
        /\ UNCHANGED <<clock, rowsWritten, puts, datasetFrame>>

\* PreferenceModel::validateSchema, in the constructor
validateSchema ==
    \E schema \in Schemas, moved \in BOOLEAN :
        /\ constructed("plain", schema)
        /\ LET mismatch == /\ datasetFile.exists
                           /\ Len(datasetFile.lines) > 0
                           /\ trim(datasetFile.lines[1]) # trim(getHeaderString(schema))
               shouldCreateNew == mismatch \/ ~datasetFile.exists
               rotated == IF mismatch
                          THEN moveFileTo(datasetFile, backupFiles, moved)
                          ELSE [file |-> datasetFile, backups |-> backupFiles]
           IN  /\ backupFiles' = rotated.backups
               /\ datasetFile' = IF shouldCreateNew
                                 THEN createAndAppend(rotated.file, getHeaderString(schema))
                                 ELSE datasetFile
        /\ UNCHANGED <<clock, rowsWritten, puts, datasetFrame>>

\* MLPPreferenceModel::appendToCSV and PreferenceModel::sendFeedback: one
\* row is appended
appendToCSV ==
    /\ datasetOwner # "none"
    /\ rowsWritten < MaxRows
    /\ rowsWritten' = rowsWritten + 1
    /\ datasetFile' = createAndAppend(datasetFile, dataRow(datasetSchema, rowsWritten + 1))
    /\ UNCHANGED <<backupFiles, clock, datasetOwner, datasetSchema, constructions,
                   puts, datasetFrame>>

\* the model is destroyed
dataset_release ==
    /\ datasetOwner # "none"
    /\ datasetOwner' = "none"
    /\ UNCHANGED <<datasetFile, backupFiles, clock, datasetSchema, constructions,
                   rowsWritten, puts, datasetFrame>>

\* between two models, a file from elsewhere is put in the dataset's place
dataset_found ==
    \E file \in FoundFiles :
        /\ datasetOwner = "none"
        /\ puts < MaxPuts
        /\ puts' = puts + 1
        /\ datasetFile' = file
        /\ UNCHANGED <<backupFiles, clock, datasetOwner, datasetSchema,
                       constructions, rowsWritten, datasetFrame>>

\* a second passes
clock_tick ==
    /\ clock < MaxTime
    /\ clock' = clock + 1
    /\ UNCHANGED <<datasetFile, backupFiles, datasetOwner, datasetSchema,
                   constructions, rowsWritten, puts, datasetFrame>>

(***************************************************************************)
(* Individual, under any sequence of its operations                        *)
(***************************************************************************)

\* Largest parameter count the individual is resized to.
MaxParameterCount == 2

\* The vectors handed to setParameters.
ParameterVectors ==
    UNION {[1..n -> GeneValues] : n \in 0..MaxParameterCount}

\* The draws of UniformMutation on the individual: the parameters selected
\* and the perturbation added to them before clamping.
PerturbationDraws ==
    {[selected |-> s, perturbation |-> p] :
        s \in SUBSET (1..MaxParameterCount), p \in {-1, 0, 1}}

\* Individual::setParameterCount: parameters.resize(count, 0.0f)
setParameterCount(ind, count) ==
    [ind EXCEPT !.parameters = [i \in 1..count |->
                                   IF i <= Len(ind.parameters) THEN ind.parameters[i]
                                                               ELSE 0],
                !.isEvaluated = FALSE]

individualFrame == <<gaVars, bridgeVars, historyVars, callVars, feedbackVars, mlpVars,
                     cacheVars, datasetVars,
        repaired, replay>>

\* what the operation was is recorded, and whether it left the parameter
\* vector different from the one before it
recorded(op, index) ==
    /\ individualOp' = [op |-> op, index |-> index]
    /\ modifiedSince' = IF op = "setFitness"
                        THEN FALSE
                        ELSE modifiedSince \/ individual'.parameters # individual.parameters
    /\ UNCHANGED individualFrame

individual_setFitness ==
    \E f \in GeneValues :
        /\ individual' = setFitness(individual, f)
        /\ recorded("setFitness", 0)

\* index is 1-based: 0 and Len + 1 are the out-of-range neighbours
individual_setParameter ==
    \E index \in 0..(MaxParameterCount + 1), value \in GeneValues :
        /\ individual' = setParameter(individual, index, value)
        /\ recorded("setParameter", index)

individual_setParameters ==
    \E params \in ParameterVectors :
        /\ individual' = setParameters(individual, params)
        /\ recorded("setParameters", 0)

individual_setParameterCount ==
    \E count \in 0..MaxParameterCount :
        /\ individual' = setParameterCount(individual, count)
        /\ recorded("setParameterCount", 0)

individual_invalidateFitness ==
    /\ individual' = invalidateFitness(individual)
    /\ recorded("invalidateFitness", 0)

individual_UniformMutation ==
    \E draw \in PerturbationDraws :
        /\ individual' = UniformMutation(individual, draw)
        /\ recorded("UniformMutation", 0)

(***************************************************************************)
(* GenomeConstraints::repair                                               *)
(*                                                                         *)
(* Parameter values are hundredths (0.35 is 35); a product or quotient is  *)
(* rounded to the grid as a float result is rounded to the nearest float.  *)
(***************************************************************************)

\* Number of times repair is called on the same genome.
MaxRepairCalls == 2

\* GenomeConstraints::FilterFreq and FilterEnv, as 1-based positions
FilterFreq == 3

FilterEnv == 5

\* envWeight (0.7f) and minAudibility (0.35f), in hundredths
envWeight == 70

minAudibility == 35

\* The values tried for filterFreq and filterEnv, in and out of [0, 1].
FilterFreqValues == {-50, -35, 0, 1, 10, 20, 34, 35, 80, 120}

FilterEnvValues == {-10, 0, 30, 50, 51, 60, 71, 99, 100, 150}

\* The genomes handed to repair: of every length up to one past FilterEnv,
\* all other parameters at 0.5.
RepairGenomes ==
    UNION {{[i \in 1..n |-> IF i = FilterFreq THEN f
                            ELSE IF i = FilterEnv THEN e ELSE 50] :
               f \in FilterFreqValues, e \in FilterEnvValues} : n \in 0..(FilterEnv + 1)}

\* integer quotient rounded towards zero
quot(a, b) == IF a >= 0 THEN a \div b ELSE -((-a) \div b)

\* The boost is added to the envelope depth found in the genome.
repair_addsToEnvelope(genome) ==
    IF Len(genome) < FilterEnv
    THEN genome
    ELSE LET filterFreq == genome[FilterFreq]
             filterEnv == genome[FilterEnv]
             stretched == (filterEnv - 50) * 2
             positiveEnvContribution == IF stretched > 0 THEN stretched ELSE 0
             audibilityScore == filterFreq + quot(positiveEnvContribution * envWeight, 100)
         IN  IF audibilityScore < minAudibility
             THEN LET deficit == minAudibility - filterFreq
                      requiredPositiveEnv == quot(deficit * 100, envWeight)
                      requiredFilterEnv == filterEnv + quot(requiredPositiveEnv, 2)
                  IN  [genome EXCEPT ![FilterEnv] =
                          IF requiredFilterEnv > 100 THEN 100 ELSE requiredFilterEnv]
             ELSE genome

\* GenomeConstraints::repair
repair(genome) ==
    IF Len(genome) < FilterEnv
    THEN genome
    ELSE LET filterFreq == genome[FilterFreq]
             filterEnv == genome[FilterEnv]
             stretched == (filterEnv - 50) * 2
             positiveEnvContribution == IF stretched > 0 THEN stretched ELSE 0
             audibilityScore == filterFreq + quot(positiveEnvContribution * envWeight, 100)
         IN  IF audibilityScore < minAudibility
             THEN LET deficit == minAudibility - filterFreq
                      requiredPositiveEnv == quot(deficit * 100, envWeight)
                      requiredFilterEnv == 50 + quot(requiredPositiveEnv, 2)
                  IN  [genome EXCEPT ![FilterEnv] =
                          IF requiredFilterEnv > 100 THEN 100 ELSE requiredFilterEnv]
             ELSE genome

repairFrame == <<gaVars, bridgeVars, historyVars, callVars, feedbackVars, mlpVars,
                 cacheVars, datasetVars, individualVars, replay>>

\* a caller takes a genome
repair_take ==
    \E genome \in RepairGenomes :
        /\ repaired.calls \in {0, MaxRepairCalls}
        /\ repaired' = [given |-> genome, genome |-> genome, calls |-> 0]
        /\ UNCHANGED repairFrame

\* and calls repair on it
repair_call ==
    /\ repaired.calls < MaxRepairCalls
    /\ Len(repaired.given) + repaired.calls > 0
    /\ repaired' = [repaired EXCEPT !.genome = repair(repaired.genome),
                                    !.calls = repaired.calls + 1]
    /\ UNCHANGED repairFrame

(***************************************************************************)
(* MLPPreferenceModel: the training thread's use of the feature cache      *)
(*                                                                         *)
(* A feedback item is told apart by its genome.  The CSV append and the    *)
(* debounced save touch neither the cache nor the replay buffer and are    *)
(* left out here.                                                          *)
(***************************************************************************)

\* Stand-in for replayBatchSize (8 in the source): smaller than the buffer.
ReplayBatchSize == 1

\* Number of feedback items the training thread takes.
MaxReplayItems == 2

\* evaluate is called while the cache has counted fewer lookups than this.
MaxLookups == 3

\* The genomes of the items and of the evaluate calls: one more than the
\* cache holds.
ReplayGenomes == 1..(MaxCacheSize + 1)

\* no replay pass made yet
NoPass == [indices |-> <<>>, i |-> 0, numSamples |-> 0,
           genomeTrained |-> <<>>, audioTrained |-> <<>>,
           size |-> 0, misses |-> 0, keys |-> {}]

\* std::shuffle(indices.begin(), indices.end(), gen): the orders the
\* positions 1..n can come out in
shuffled(n) ==
    {order \in [1..n -> 1..n] : \A a, b \in 1..n : a # b => order[a] # order[b]}

replayFrame == <<gaVars, bridgeVars, historyVars, callVars, mlpVars, datasetVars,
                 individualVars, repaired>>

\* AudioFeatureCache::getFeatures, as a call made by the model: the entry
\* map, the LRU list and its iterators, the two counters (a rendering is
\* made exactly when a miss is counted)
getFeatures(genome) ==
    LET hash == hashGenome(genome) IN
    /\ IF hash \in DOMAIN cache
       THEN /\ cacheHits' = cacheHits + 1
            /\ lruOrder' = <<hash>> \o eraseNode(lruOrder, hash)
            /\ lruMap' = lruMap \cup {hash}
            /\ UNCHANGED <<cache, cacheMisses>>
       ELSE LET features == extractFeatures(genome, sampleRate)
                kept == IF Cardinality(DOMAIN cache) >= MaxCacheSize
                        THEN evictLRU([cache |-> cache, lruOrder |-> lruOrder,
                                       lruMap |-> lruMap])
                        ELSE [cache |-> cache, lruOrder |-> lruOrder,
                              lruMap |-> lruMap]
            IN  /\ cacheMisses' = cacheMisses + 1
                /\ cache' = with(kept.cache, hash, features)
                /\ lruOrder' = <<hash>> \o kept.lruOrder
                /\ lruMap' = kept.lruMap \cup {hash}
                /\ UNCHANGED cacheHits
    /\ UNCHANGED <<sampleRate, cacheCalls, cacheCall, cacheReturn, renders,
                   lastAccess>>

\* AudioFeatureCache::hasCached
hasCached(genome) == hashGenome(genome) \in DOMAIN cache

\* run(): the front item of the queue is taken
worker_take ==
    \E genome \in ReplayGenomes :
        /\ workerPc = "wait"
        /\ sampleCount < MaxReplayItems
        /\ sampleCount' = sampleCount + 1
        /\ item' = genome
        /\ workerPc' = "train_lock"
        /\ UNCHANGED <<feedbackQueue, queueMutex, mlpMutex, fileLock, queueEvent,
                       replayBuffer, bufferIndex, lastSaveCount, trained, csvRows,
                       savedAt, callerPc, callerIndex, evalPc, ratePc,
                       callSnapshot, cacheVars, replay, replayFrame>>

\* processQueuedFeedback, first block: features = audioFeatureCache->
\* getFeatures(genome), both networks are trained; the lock is released
process_train ==
    /\ workerPc = "train"
    /\ getFeatures(item)
    /\ mlpMutex' = "free"
    /\ workerPc' = "buffer"
    /\ UNCHANGED <<feedbackQueue, sampleCount, queueMutex, fileLock, queueEvent,
                   replayBuffer, bufferIndex, lastSaveCount, trained, csvRows,
                   savedAt, item, callerPc, callerIndex, evalPc, ratePc,
                   callSnapshot, replay, replayFrame>>

\* replayTrain: the early return, numSamples, the shuffled indices
replayTrain_begin ==
    /\ workerPc = "replay"
    /\ IF replayBuffer = <<>>
       THEN /\ replay' = [NoPass EXCEPT !.misses = cacheMisses,
                                        !.keys = DOMAIN cache]
            /\ workerPc' = "replay_return"
       ELSE \E indices \in shuffled(Len(replayBuffer)) :
                /\ replay' = [indices |-> indices, i |-> 0,
                              numSamples |-> Min(Len(replayBuffer), ReplayBatchSize),
                              genomeTrained |-> <<>>, audioTrained |-> <<>>,
                              size |-> Len(replayBuffer),
                              misses |-> cacheMisses, keys |-> DOMAIN cache]
                /\ workerPc' = "replay_loop"
    /\ UNCHANGED <<feedbackQueue, sampleCount, queueMutex, mlpMutex, fileLock,
                   queueEvent, replayBuffer, bufferIndex, lastSaveCount, trained,
                   csvRows, savedAt, item, callerPc, callerIndex, evalPc, ratePc,
                   callSnapshot, cacheVars, replayFrame>>

\* The audio network is trained on every sample of the pass.
replayTrain_genome_noCheck ==
    /\ workerPc = "replay_loop"
    /\ IF replay.i < replay.numSamples
       THEN /\ replay' = [replay EXCEPT
                              !.genomeTrained = Append(@, replay.indices[replay.i + 1])]
            /\ workerPc' = "replay_audio"
       ELSE /\ workerPc' = "replay_return"
            /\ UNCHANGED replay
    /\ UNCHANGED <<feedbackQueue, sampleCount, queueMutex, mlpMutex, fileLock,
                   queueEvent, replayBuffer, bufferIndex, lastSaveCount, trained,
                   csvRows, savedAt, item, callerPc, callerIndex, evalPc, ratePc,
                   callSnapshot, cacheVars, replayFrame>>

\* replayTrain, the loop: i < numSamples; mlpGenome.train on the sample at
\* indices[i]; if (audioFeatureCache->hasCached(genome))
replayTrain_genome ==
    /\ workerPc = "replay_loop"
    /\ IF replay.i < replay.numSamples
       THEN LET genome == replayBuffer[replay.indices[replay.i + 1]] IN
            IF hasCached(genome)
               THEN /\ replay' = [replay EXCEPT
                                      !.genomeTrained = Append(@, replay.indices[replay.i + 1])]
                    /\ workerPc' = "replay_audio"
               ELSE /\ replay' = [replay EXCEPT
                                      !.genomeTrained = Append(@, replay.indices[replay.i + 1]),
                                      !.i = @ + 1]
                    /\ UNCHANGED workerPc
       ELSE /\ workerPc' = "replay_return"
            /\ UNCHANGED replay
    /\ UNCHANGED <<feedbackQueue, sampleCount, queueMutex, mlpMutex, fileLock,
                   queueEvent, replayBuffer, bufferIndex, lastSaveCount, trained,
                   csvRows, savedAt, item, callerPc, callerIndex, evalPc, ratePc,
                   callSnapshot, cacheVars, replayFrame>>

\* replayTrain, the loop: features = audioFeatureCache->getFeatures(genome);
\* mlpAudio.train(features, ...); ++i
replayTrain_audio ==
    /\ workerPc = "replay_audio"
    /\ getFeatures(replayBuffer[replay.indices[replay.i + 1]])
    /\ replay' = [replay EXCEPT
                      !.audioTrained = Append(@, replay.indices[replay.i + 1]),
                      !.i = @ + 1]
    /\ workerPc' = "replay_loop"
    /\ UNCHANGED <<feedbackQueue, sampleCount, queueMutex, mlpMutex, fileLock,
                   queueEvent, replayBuffer, bufferIndex, lastSaveCount, trained,
                   csvRows, savedAt, item, callerPc, callerIndex, evalPc, ratePc,
                   callSnapshot, replayFrame>>

\* replayTrain returns and its locals are gone; the lock of the replay
\* block is released
replayTrain_return ==
    /\ workerPc = "replay_return"
    /\ replay' = NoPass
    /\ mlpMutex' = "free"
    /\ workerPc' = "wait"
    /\ UNCHANGED <<feedbackQueue, sampleCount, queueMutex, fileLock, queueEvent,
                   replayBuffer, bufferIndex, lastSaveCount, trained, csvRows,
                   savedAt, item, callerPc, callerIndex, evalPc, ratePc,
                   callSnapshot, cacheVars, replayFrame>>

\* MLPPreferenceModel::evaluate is called
evaluate_enter ==
    /\ cacheHits + cacheMisses < MaxLookups
    /\ evaluate_lock

\* MLPPreferenceModel::evaluate: audioFeatureCache->getFeatures(genome) and
\* the predictions; the lock is released
evaluate_getFeatures ==
    \E genome \in ReplayGenomes :
        /\ evalPc = "predict"
        /\ getFeatures(genome)
        /\ mlpMutex' = "free"
        /\ evalPc' = "idle"
        /\ UNCHANGED <<feedbackQueue, sampleCount, queueMutex, fileLock, queueEvent,
                       replayBuffer, bufferIndex, lastSaveCount, trained, csvRows,
                       savedAt, workerPc, item, callerPc, callerIndex, ratePc,
                       callSnapshot, replay, replayFrame>>

\* MLPPreferenceModel::setSampleRate: audioFeatureCache->setSampleRate(
\* newSampleRate), which clears the cache when the rate changes; the lock is
\* released.  The rates given never go down.
setSampleRate_cache ==
    \E newSampleRate \in {rate \in SampleRates : rate >= sampleRate} :
        /\ ratePc = "set"
        /\ IF newSampleRate = sampleRate
           THEN UNCHANGED <<cache, lruOrder, lruMap, cacheHits, cacheMisses,
                            sampleRate, lastAccess>>
           ELSE /\ sampleRate' = newSampleRate
                /\ cleared
        /\ mlpMutex' = "free"
        /\ ratePc' = "idle"
        /\ UNCHANGED <<feedbackQueue, sampleCount, queueMutex, fileLock, queueEvent,
                       replayBuffer, bufferIndex, lastSaveCount, trained, csvRows,
                       savedAt, workerPc, item, callerPc, callerIndex, evalPc,
                       callSnapshot, cacheCalls, cacheCall, cacheReturn, renders,
                       replay, replayFrame>>

(***************************************************************************)
(* MLPPreferenceModel: the destructor and the end of the training thread   *)
(***************************************************************************)

\* juce::Thread::threadShouldExit() of the training thread: set by the first
\* statement of the destructor, which the owner of the model runs
threadShouldExit == callerPc \in {"dtor_event", "dtor_stop", "dtor_save", "destroyed"}

\* run(): while (!threadShouldExit())
worker_test ==
    /\ workerPc = "wait"
    /\ workerPc' = IF threadShouldExit THEN "exited" ELSE "waiting"
    /\ UNCHANGED <<feedbackQueue, sampleCount, queueMutex, mlpMutex,
                   fileLock, queueEvent, replayBuffer, bufferIndex,
                   lastSaveCount, trained, csvRows, savedAt, item, callerPc,
                   callerIndex, evalPc, ratePc, callSnapshot, feedbackFrame>>

\* run(): queueEvent.wait(100) returns, signalled or timed out
worker_wake ==
    /\ workerPc = "waiting"
    /\ queueEvent' = FALSE
    /\ workerPc' = "queue_lock"
    /\ UNCHANGED <<feedbackQueue, sampleCount, queueMutex, mlpMutex,
                   fileLock, replayBuffer, bufferIndex, lastSaveCount,
                   trained, csvRows, savedAt, item, callerPc, callerIndex,
                   evalPc, ratePc, callSnapshot, feedbackFrame>>

\* ~MLPPreferenceModel: signalThreadShouldExit();
dtor_signalThreadShouldExit ==
    /\ callerPc = "idle"
    /\ callerPc' = "dtor_event"
    /\ UNCHANGED <<feedbackQueue, sampleCount, queueMutex, mlpMutex,
                   fileLock, queueEvent, replayBuffer, bufferIndex,
                   lastSaveCount, trained, csvRows, savedAt, workerPc, item,
                   callerIndex, evalPc, ratePc, callSnapshot, feedbackFrame>>

\* ~MLPPreferenceModel: queueEvent.signal();
dtor_signal ==
    /\ callerPc = "dtor_event"
    /\ queueEvent' = TRUE
    /\ callerPc' = "dtor_stop"
    /\ UNCHANGED <<feedbackQueue, sampleCount, queueMutex, mlpMutex,
                   fileLock, replayBuffer, bufferIndex, lastSaveCount,
                   trained, csvRows, savedAt, workerPc, item, callerIndex,
                   evalPc, ratePc, callSnapshot, feedbackFrame>>

\* ~MLPPreferenceModel: stopThread(2000) returns when run() has returned,
\* or kills the thread where it is when the two seconds are over
dtor_stopThread ==
    /\ callerPc = "dtor_stop"
    /\ workerPc' = IF workerPc = "exited" THEN "exited" ELSE "killed"
    /\ callerPc' = "dtor_save"
    /\ UNCHANGED <<feedbackQueue, sampleCount, queueMutex, mlpMutex,
                   fileLock, queueEvent, replayBuffer, bufferIndex,
                   lastSaveCount, trained, csvRows, savedAt, item,
                   callerIndex, evalPc, ratePc, callSnapshot, feedbackFrame>>

\* ~MLPPreferenceModel: saveWeights(); the members are destroyed (0 in
\* savedAt: the final save)
dtor_saveWeights ==
    /\ callerPc = "dtor_save"
    /\ savedAt' = Append(savedAt, 0)
    /\ callerPc' = "destroyed"
    /\ UNCHANGED <<feedbackQueue, sampleCount, queueMutex, mlpMutex,
                   fileLock, queueEvent, replayBuffer, bufferIndex,
                   lastSaveCount, trained, csvRows, workerPc, item,
                   callerIndex, evalPc, ratePc, callSnapshot, feedbackFrame>>

(***************************************************************************)
(* Specifications                                                          *)
(***************************************************************************)

Init ==
    /\ threadRunning = FALSE
    /\ shouldExit = FALSE
    /\ paused = FALSE
    /\ pauseEvent = FALSE
    /\ populationInitialized = FALSE
    /\ bestFitnessSoFar = 0
    /\ individuals = <<>>
    /\ bestIndex = 0
    /\ statisticsDirty = TRUE
    /\ fitnessModel \in FitnessModels
    /\ enginePc = "none"
    /\ offspring = <<>>
    /\ genIndex = 0
    /\ ctlPc = "idle"
    /\ parameters = <<>>
    /\ storedFitness = 0
    /\ ready = FALSE
    /\ mtx = "free"
    /\ pushedBy = "none"
    /\ stopFrom = "none"
    /\ stopReturned = FALSE
    /\ bpc = [t \in BridgeThreads |-> "idle"]
    /\ arg = [t \in Producers |-> 0]
    /\ outParams = [t \in Consumers |-> FreshParams]
    /\ outFitness = [t \in Consumers |-> FreshFitness]
    /\ popResult = [t \in Consumers |-> "none"]
    /\ pushCount = 0
    /\ popCount = [k \in 1..MaxPushes |-> 0]
    /\ committed = 0
    /\ overwrote = FALSE
    /\ feedbackQueue = <<>>
    /\ sampleCount = 0
    /\ queueMutex = "free"
    /\ mlpMutex = "free"
    /\ fileLock = "free"
    /\ queueEvent = FALSE
    /\ replayBuffer = <<>>
    /\ bufferIndex = 0
    /\ lastSaveCount = 0
    /\ trained = <<>>
    /\ csvRows = <<>>
    /\ savedAt = <<>>
    /\ workerPc = "wait"
    /\ item = 0
    /\ callerPc = "idle"
    /\ callerIndex = 0
    /\ evalPc = "idle"
    /\ ratePc = "idle"
    /\ callSnapshot = <<"none", 0>>
    /\ nets = [n \in Networks |-> FreshNet(0)]
    /\ weightFiles = [n \in Networks |-> AbsentFile]
    /\ modelAlive = FALSE
    /\ sessions = 0
    /\ lastOp = "none"
    /\ setArg = [network |-> "genome", weights |-> <<>>]
    /\ setResult = FALSE
    /\ cache = <<>>
    /\ lruOrder = <<>>
    /\ lruMap = {}
    /\ cacheHits = 0
    /\ cacheMisses = 0
    /\ sampleRate = 44100
    /\ cacheCalls = 0
    /\ cacheCall = [op |-> "none", genome |-> 0]
    /\ cacheReturn = FALSE
    /\ renders = 0
    /\ lastAccess = <<>>
    /\ datasetFile = NoFile
    /\ backupFiles = [t \in 0..MaxTime |-> NoFile]
    /\ clock = 0
    /\ datasetOwner = "none"
    /\ datasetSchema = "A"
    /\ constructions = 0
    /\ rowsWritten = 0
    /\ puts = 0
    /\ individual = NewIndividual(MaxParameterCount)
    /\ individualOp = [op |-> "none", index |-> 0]
    /\ modifiedSince = FALSE
    /\ repaired = [given |-> <<>>, genome |-> <<>>, calls |-> 0]
    /\ replay = NoPass

Control == startGA \/ stopGA_signal \/ stopGA_join \/ pauseGA \/ resumeGA

Engine ==
    \/ run_top
    \/ run_pause_check
    \/ run_pause_wait
    \/ run_exit_check
    \/ run_backpressure
    \/ run_backoff_wait
    \/ run_gen_exit
    \/ run_gen_pause
    \/ run_gen_pause_wait
    \/ run_gen_child
    \/ run_post_gen
    \/ run_replace
    \/ run_publish

Consumer == consumer_pop \/ consumer_clear

Next == Control \/ Engine \/ Consumer

Spec == Init /\ [][Next]_vars

\* The scheduler runs the background thread, and stopThread's wait ends once
\* the thread is gone.  Nothing is assumed of the caller or the consumer.
FairSpec == Init /\ [][Next]_vars /\ WF_vars(Engine) /\ WF_vars(stopGA_join)

\* The bridge alone, its calls interleaved statement by statement.
NextBridge == \E t \in BridgeThreads : pushStep(t) \/ pop_call(t) \/ popStep(t) \/ clearStep(t)

SpecBridge == Init /\ [][NextBridge]_vars

\* The preference model's threads.
Worker ==
    \/ worker_wait
    \/ worker_queue_lock
    \/ worker_dequeue
    \/ worker_train_lock
    \/ worker_train
    \/ worker_buffer
    \/ worker_replay_lock
    \/ worker_replay
    \/ worker_csv_lock
    \/ worker_csv
    \/ worker_save_check
    \/ worker_save_lock
    \/ worker_save

Evaluator == evaluate_lock \/ evaluate_predict

RateSetter == setSampleRate_lock \/ setSampleRate_set

NextFeedback == sendFeedback \/ Worker \/ Evaluator \/ RateSetter

SpecFeedback == Init /\ [][NextFeedback]_vars

\* The networks of one model: training and setWeights calls.
NextMLP == model_construct \/ model_train \/ mlp_setWeights

SpecMLP == Init /\ [][NextMLP]_vars

\* The networks and their files over construction, training, saving and
\* destruction of successive models.
NextWeights ==
    \/ model_construct
    \/ model_train
    \/ model_saveWeights
    \/ model_destroy
    \/ file_damage

SpecWeights == Init /\ [][NextWeights]_vars

\* The feature cache under any sequence of calls.
NextCache == cache_getFeatures \/ cache_hasCached \/ cache_setSampleRate \/ cache_clear

SpecCache == Init /\ [][NextCache]_vars

\* The dataset directory over the lives of several models.
NextDataset ==
    \/ initCSV
    \/ validateSchema
    \/ appendToCSV
    \/ dataset_release
    \/ dataset_found
    \/ clock_tick

SpecDataset == Init /\ [][NextDataset]_vars

\* An individual under any sequence of its operations.
NextIndividual ==
    \/ individual_setFitness
    \/ individual_setParameter
    \/ individual_setParameters
    \/ individual_setParameterCount
    \/ individual_invalidateFitness
    \/ individual_UniformMutation

SpecIndividual == Init /\ [][NextIndividual]_vars

\* Genomes repaired once and again.
NextRepair == repair_take \/ repair_call

SpecRepair == Init /\ [][NextRepair]_vars

\* A model from its construction to its destruction: sendFeedback calls,
\* the training thread, the destructor.
NextShutdown ==
    \/ sendFeedback
    \/ worker_test
    \/ worker_wake
    \/ worker_queue_lock
    \/ worker_dequeue
    \/ worker_train_lock
    \/ worker_train
    \/ worker_buffer
    \/ worker_replay_lock
    \/ worker_replay
    \/ worker_csv_lock
    \/ worker_csv
    \/ worker_save_check
    \/ worker_save_lock
    \/ worker_save
    \/ dtor_signalThreadShouldExit
    \/ dtor_signal
    \/ dtor_stopThread
    \/ dtor_saveWeights

SpecShutdown == Init /\ [][NextShutdown]_vars

\* The training thread, evaluate and setSampleRate on one model and its cache.
NextReplay ==
    \/ worker_take
    \/ worker_train_lock
    \/ process_train
    \/ worker_buffer
    \/ worker_replay_lock
    \/ replayTrain_begin
    \/ replayTrain_genome
    \/ replayTrain_audio
    \/ replayTrain_return
    \/ evaluate_enter
    \/ evaluate_getFeatures
    \/ setSampleRate_lock
    \/ setSampleRate_cache

SpecReplay == Init /\ [][NextReplay]_vars

(***************************************************************************)
(* Properties of the engine lifecycle and of backpressure                  *)
(***************************************************************************)

\* A step in which run() pushes the generation's best offspring.
EnginePushStep == enginePc = "publish" /\ offspring # <<>> /\ enginePc' = "top"

\* A step in which startGA pushes the best of a freshly built population.
StartPushStep == ~populationInitialized /\ populationInitialized' /\ pushedBy' = "startGA"

\* C1 as stated: at every push of the engine, the initial push of startGA and
\* the pushes of the background loop alike, hasData() is false just before.
C1_EveryPushFindsBridgeEmpty ==
    [][(EnginePushStep \/ StartPushStep) => ~ready]_vars

\* C1, amended: at every push of the background loop hasData() is false just
\* before the push, so a loop push never overwrites an unread candidate; the
\* initial push of startGA is made without looking at hasData().
C1_LoopPushFindsBridgeEmpty ==
    [][EnginePushStep => (~ready /\ ready' /\ pushedBy' = "run")]_vars

\* The loop has published an offspring and the consumer has not taken it yet.
C1_Witness == pushedBy = "run" /\ ready /\ threadRunning

C4_StopReturnsToIdle ==
    (stopReturned /\ stopFrom \in {"Idle", "Running", "Paused"})
        => (~threadRunning /\ ~paused /\ ctlPc = "idle")

\* stopGA has returned after being called on a paused engine.
C4_Witness == stopReturned /\ stopFrom = "Paused" /\ ~threadRunning /\ ~paused

\* C5: a startGA step taken while the thread runs changes nothing of the
\* engine: the thread keeps running where it was, and the population, the
\* bridge and the paused flag are as before.
C5_StartOnRunningIsNoOp ==
    [][(threadRunning /\ startGA) => (threadRunning' /\ UNCHANGED <<gaVars, bridgeVars>>)]_vars

\* A running, paused engine with an unread candidate and a caller free to
\* call startGA again; the call being a no-op, this is also the state after it.
C5_Witness ==
    threadRunning /\ ctlPc = "idle" /\ paused /\ ready /\ enginePc # "none"

\* The largest fitness in a population.
MaxFitness(inds) ==
    CHOOSE f \in {inds[i].fitness : i \in 1..Len(inds)} :
        \A i \in 1..Len(inds) : inds[i].fitness <= f

\* C6: when startGA returns on an idle engine, the bridge holds a candidate,
\* every individual of the new population is evaluated, and the candidate is
\* the population's best: PARAMETER_COUNT parameters, the largest fitness.
C6_StartPublishesBest ==
    [][(~threadRunning /\ startGA) =>
          /\ threadRunning'
          /\ ready'
          /\ Len(individuals') = PopulationSize
          /\ \A i \in 1..Len(individuals') : individuals'[i].isEvaluated
          /\ Len(parameters') = PARAMETER_COUNT
          /\ storedFitness' = MaxFitness(individuals')
          /\ \E i \in 1..Len(individuals') :
                /\ individuals'[i].parameters = parameters'
                /\ individuals'[i].fitness = storedFitness'
          /\ parameters' = individuals'[bestIndex'].parameters
          /\ bestFitnessSoFar' = storedFitness']_vars

\* startGA has just returned on an idle engine: the thread has not moved yet
\* and the population holds individuals of different fitness.
C6_Witness ==
    /\ pushedBy = "startGA" /\ ready /\ threadRunning /\ enginePc = "top"
    /\ \E i, j \in 1..Len(individuals) : individuals[i].fitness < individuals[j].fitness
    /\ storedFitness = MaxFitness(individuals)

\* C7: under a fair scheduler, a stopGA call always returns with the
\* background loop gone, whatever the loop was doing.
C7_StopIsObserved ==
    (ctlPc = "stopping") ~> (stopReturned /\ ctlPc = "idle" /\ enginePc = "none")

\* stopGA is waiting for a loop that sits in a pause wait.
C7_Witness ==
    ctlPc = "stopping" /\ paused /\ enginePc \in {"pause_wait", "gen_pause_wait"}

(***************************************************************************)
(* Properties of the bridge under concurrent calls (SpecBridge)            *)
(***************************************************************************)

PopPcs == {"pop_fast", "pop_lock", "pop_check", "pop_params", "pop_fitness",
           "pop_ready", "pop_unlock"}

\* the pop of thread t has copied both outputs, or has returned true
popTook(t) ==
    \/ bpc[t] \in {"pop_ready", "pop_unlock"}
    \/ bpc[t] = "idle" /\ popResult[t] = "true"

\* C2: the parameter vector and the fitness a successful pop hands to its
\* caller were both passed to one and the same push call, whatever push, pop
\* and clear calls of other threads run at the same time.
C2_NoTornCandidate ==
    \A t \in Consumers :
        popTook(t) =>
            \E k \in 1..pushCount :
                /\ outParams[t] = CandidateParams(k)
                /\ outFitness[t] = CandidateFitness(k)

\* a pop has taken a candidate while a second push, with another candidate,
\* and a clear wait for the lock
C2_Witness ==
    \E t, c \in Consumers : \E p \in Producers :
        /\ bpc[t] = "pop_unlock"
        /\ bpc[p] = "push_lock"
        /\ bpc[c] = "clear_lock"
        /\ outFitness[t] # CandidateFitness(arg[p])
        /\ outParams[t] = CandidateParams(committed)

\* C8: a successful pop returns the vector and the fitness of the most
\* recent push completed before it (a later push replaces an earlier unread
\* one), and while a candidate is unread the bridge holds exactly the latest
\* push's data.
C8_PopReturnsLatestPush ==
    /\ \A t \in Consumers :
           bpc[t] = "pop_unlock" =>
               /\ committed \in 1..pushCount
               /\ outParams[t] = CandidateParams(committed)
               /\ outFitness[t] = CandidateFitness(committed)
    /\ (ready /\ mtx \notin Producers) =>
           /\ parameters = CandidateParams(committed)
           /\ storedFitness = CandidateFitness(committed)

\* a pop returns the second push's candidate, which replaced the unread first
C8_Witness ==
    \E t \in Consumers :
        /\ bpc[t] = "pop_unlock"
        /\ overwrote
        /\ committed = 2
        /\ outParams[t] = CandidateParams(2)
        /\ outFitness[t] = CandidateFitness(2)
        /\ \A k \in 1..MaxPushes : popCount[k] = (IF k = 2 THEN 1 ELSE 0)

\* a pop statement of thread t that returns
popReturns(t) == bpc[t] \in PopPcs /\ bpc'[t] = "idle"

\* C9: a pop call waits for nothing but the bridge's lock; it returns false
\* only on reading the flag as not ready and then has left its arguments as
\* they were passed; it returns true only with an unread candidate, which it
\* consumes (the flag is false when it lets go of the lock), and no candidate
\* is returned by more than one pop, racing pops included.
C9_PopTakesEachCandidateOnce ==
    /\ [](\A k \in 1..MaxPushes : popCount[k] <= 1)
    /\ [](\A t \in Consumers :
            /\ (bpc[t] \in PopPcs /\ (bpc[t] # "pop_lock" \/ mtx = "free"))
                   => ENABLED popStep(t)
            /\ (bpc[t] = "idle" /\ popResult[t] = "false")
                   => (outParams[t] = FreshParams /\ outFitness[t] = FreshFitness)
            /\ bpc[t] = "pop_unlock" => ~ready)
    /\ [][\A t \in Consumers :
            popReturns(t) =>
                IF popResult'[t] = "true"
                THEN /\ committed \in 1..pushCount
                     /\ outParams[t] = CandidateParams(committed)
                     /\ popCount[committed] = 1
                ELSE /\ popResult'[t] = "false"
                     /\ ~ready
                     /\ UNCHANGED <<outParams, outFitness, ready>>]_vars

\* two pops raced for one candidate: one took it, the other passed the first
\* read of the flag and returned false under the lock
C9_Witness ==
    \E t, u \in Consumers :
        /\ t # u
        /\ bpc[t] = "idle" /\ popResult[t] = "true"
        /\ bpc[u] = "idle" /\ popResult[u] = "false"
        /\ outParams[t] = CandidateParams(1)
        /\ pushCount = 1
        /\ popCount[1] = 1
        /\ ~ready

(***************************************************************************)
(* Properties of the feedback path (SpecFeedback)                          *)
(***************************************************************************)

\* the worker is in, or waits to enter, a train, replay, dataset or save step
TrainingPcs == {"train_lock", "train", "buffer", "replay_lock", "replay",
                "csv_lock", "csv", "save_check", "save_lock", "save"}

\* C10: sendFeedback takes queueMutex only, never mlpMutex or fileLock, and
\* the training thread holds queueMutex only around its dequeue, so a
\* sendFeedback call can always go on to its return while the worker trains,
\* replays, writes the dataset row or saves.
C10_SendFeedbackNeverWaitsForTraining ==
    /\ mlpMutex # "caller"
    /\ fileLock # "caller"
    /\ workerPc \in TrainingPcs => queueMutex # "worker"
    /\ (callerPc # "idle" /\ workerPc \in TrainingPcs) => ENABLED sendFeedback

\* a sendFeedback call made while the worker was saving the weights has
\* enqueued its item and is about to return, the worker still saving
C10_Witness ==
    /\ callerPc = "send_signal"
    /\ workerPc = "save"
    /\ mlpMutex = "worker"
    /\ callSnapshot = <<"save", item>>
    /\ callerIndex = feedbackQueue[Len(feedbackQueue)]

\* the threads that are inside a predict or train call or a cache access
mlpUsers ==
    {u \in {"evaluator", "worker", "rate"} :
        \/ u = "evaluator" /\ evalPc = "predict"
        \/ u = "worker" /\ workerPc \in {"train", "replay"}
        \/ u = "rate" /\ ratePc = "set"}

\* C11: whichever of evaluate, setSampleRate and the training thread (train
\* and replay) is using the networks or the feature cache holds mlpMutex, so
\* no two of them use them at the same time.
C11_ModelStateUnderMlpMutex ==
    /\ \A u \in mlpUsers : mlpMutex = u
    /\ Cardinality(mlpUsers) <= 1

\* evaluate predicts while the worker waits to train and setSampleRate waits
\* for the same lock
C11_Witness ==
    /\ evalPc = "predict"
    /\ mlpMutex = "evaluator"
    /\ workerPc = "train_lock"
    /\ ratePc = "idle"
    /\ item >= 1
    /\ ~ ENABLED worker_train_lock
    /\ ~ ENABLED setSampleRate_lock

\* C12: the training thread does not hold mlpMutex while it appends the
\* dataset row nor while it writes the weights to disk.
C12_DiskIoOutsideMlpMutex ==
    workerPc \in {"csv", "save"} => mlpMutex # "worker"

(***************************************************************************)
(* Properties of the networks and their files (SpecMLP)                    *)
(***************************************************************************)

\* C13: a setWeights call with a vector of any length other than
\* getWeightCount() returns false and leaves weights, biases, Adam moments
\* and timestep of every network, hence every prediction, as they were.
C13_WrongLengthRejected ==
    [][(lastOp' = "setWeights" /\ Len(setArg'.weights) # getWeightCount) =>
          /\ setResult' = FALSE
          /\ nets' = nets
          /\ \A n \in Networks : \A input \in ProbeInputs :
                 zOutput(nets'[n], input) = zOutput(nets[n], input)]_vars

\* a trained network was handed a vector one too long and refused it
C13_Witness ==
    /\ lastOp = "setWeights"
    /\ Len(setArg.weights) = getWeightCount + 1
    /\ setResult = FALSE
    /\ nets[setArg.network].timestep = 1
    /\ zOutput(nets[setArg.network], [i \in 1..InputSize |-> 1]) # 0

\* the file holds the count of the current architecture and that many values
holdsAllValues(file) ==
    /\ file.exists
    /\ file.opens
    /\ file.count = getWeightCount
    /\ Len(file.values) >= file.count

\* C18: after construction each network is in a fresh initial state, unless
\* its file exists, opens, declares the current weight count and holds that
\* many values, and then the network holds exactly the file's values.
C18_LoadIsAllOrNothing ==
    [][(~modelAlive /\ modelAlive') =>
          \A n \in Networks :
              \/ \E x \in XavierDraws : nets'[n] = FreshNet(x)
              \/ /\ holdsAllValues(weightFiles[n])
                 /\ getWeights(nets'[n]) = SubSeq(weightFiles[n].values, 1, getWeightCount)]_vars

\* a step that is a getFeatures call
getFeaturesStep == cacheCalls' = cacheCalls + 1 /\ cacheCall'.op = "getFeatures"

\* C14: after any sequence of getFeatures, hasCached, setSampleRate and clear
\* calls the cache holds at most its capacity of entries, the entry map, the
\* LRU list and the LRU iterator map have the same keys, and no key is twice
\* in the LRU list.
C14_CacheWithinCapacityAndConsistent ==
    /\ Cardinality(DOMAIN cache) <= MaxCacheSize
    /\ DOMAIN cache = lruKeys
    /\ lruMap = lruKeys
    /\ Len(lruOrder) = Cardinality(lruKeys)

\* a full cache that has already evicted an entry
C14_Witness ==
    /\ Cardinality(DOMAIN cache) = MaxCacheSize
    /\ cacheMisses > MaxCacheSize
    /\ cacheHits > 0
    /\ cacheCall.op = "getFeatures"

\* the cached key whose latest getFeatures access is the oldest
oldestAccessed ==
    CHOOSE k \in DOMAIN cache : \A x \in DOMAIN cache : lastAccess[k] <= lastAccess[x]

\* C15: eviction is strict least-recently-used.  A getFeatures that misses
\* with the cache at capacity evicts exactly the entry whose latest
\* getFeatures access is the oldest; a hit evicts nothing and makes its key
\* the most recently used; a miss below capacity evicts nothing.
C15_EvictionIsStrictLRU ==
    [][getFeaturesStep =>
        LET hash == hashGenome(cacheCall'.genome) IN
        /\ Head(lruOrder') = hash
        /\ IF hash \in DOMAIN cache
           THEN DOMAIN cache' = DOMAIN cache
           ELSE IF Cardinality(DOMAIN cache) < MaxCacheSize
                THEN DOMAIN cache' = DOMAIN cache \cup {hash}
                ELSE DOMAIN cache' = (DOMAIN cache \ {oldestAccessed}) \cup {hash}]_vars

\* a miss at capacity has evicted an entry that was inserted first but not
\* accessed last: the entry inserted after it is the one that went
C15_Witness ==
    /\ cacheCall.op = "getFeatures"
    /\ cacheMisses = MaxCacheSize + 1
    /\ cacheHits = 1
    /\ Cardinality(DOMAIN cache) = MaxCacheSize
    /\ 1 \in DOMAIN cache
    /\ 2 \notin DOMAIN cache
    /\ 2 \in DOMAIN lastAccess
    /\ lastAccess[2] < lastAccess[1]
    /\ Head(lruOrder) = hashGenome(cacheCall.genome)
    /\ Head(lruOrder) # 1

\* C16: a cache hit returns the stored vector without rendering again.  A
\* getFeatures for a genome whose entry is in the cache returns the stored
\* vector, adds one to the hit counter, leaves the miss counter, the cache
\* size and the number of renderings as they were; the second of two
\* getFeatures calls with the same genome returns the vector the first one
\* returned; and an entry that stays in the cache keeps its vector.
C16_HitReturnsStoredVector ==
    [][/\ (getFeaturesStep /\ hashGenome(cacheCall'.genome) \in DOMAIN cache) =>
            /\ cacheReturn' = cache[hashGenome(cacheCall'.genome)]
            /\ cacheHits' = cacheHits + 1
            /\ cacheMisses' = cacheMisses
            /\ Cardinality(DOMAIN cache') = Cardinality(DOMAIN cache)
            /\ renders' = renders
       /\ (getFeaturesStep /\ cacheCall.op = "getFeatures"
                           /\ cacheCall'.genome = cacheCall.genome) =>
            /\ cacheReturn' = cacheReturn
            /\ cacheHits' = cacheHits + 1
            /\ renders' = renders
       /\ \A k \in DOMAIN cache \cap DOMAIN cache' : cache'[k] = cache[k]]_vars

\* the same genome asked for twice in a row, the second call a hit
C16_Witness ==
    /\ cacheCall.op = "getFeatures"
    /\ cacheCalls = 2
    /\ cacheHits = 1
    /\ cacheMisses = 1
    /\ renders = 1
    /\ cacheReturn = extractFeatures(cacheCall.genome, sampleRate)

\* the number of feedback items that have passed the replay-buffer step
processed == IF workerPc = "buffer" THEN Len(trained) - 1 ELSE Len(trained)

\* the samples held in the replay buffer
stored == {replayBuffer[i] : i \in 1..Len(replayBuffer)}

\* the position of a sample in the order of processing
processedAt(sample) == CHOOSE p \in 1..Len(trained) : trained[p] = sample

\* C17: the replay store is a ring buffer of fixed capacity.  After n items
\* have been processed it holds exactly the latest min(n, capacity) samples,
\* its size never exceeds the capacity, and a sample added to a full buffer
\* replaces the oldest sample stored and no other.
C17_ReplayBufferIsRing ==
    /\ [](LET n == processed
              held == IF n < MaxBufferSize THEN n ELSE MaxBufferSize
          IN  /\ Len(replayBuffer) <= MaxBufferSize
              /\ Len(replayBuffer) = held
              /\ Cardinality(stored) = held
              /\ stored = {trained[p] : p \in (n - held + 1)..n})
    /\ [][(workerPc = "buffer" /\ workerPc' # "buffer"
                               /\ Len(replayBuffer) = MaxBufferSize) =>
            \E i \in 1..MaxBufferSize :
                /\ \A j \in 1..MaxBufferSize :
                       processedAt(replayBuffer[i]) <= processedAt(replayBuffer[j])
                /\ replayBuffer' = [replayBuffer EXCEPT ![i] = item]]_vars

\* the write position has gone once round the full buffer
C17_Witness ==
    /\ workerPc = "replay_lock"
    /\ processed = 2 * MaxBufferSize
    /\ Len(replayBuffer) = MaxBufferSize
    /\ bufferIndex = 0
    /\ replayBuffer[MaxBufferSize] = trained[processed]

\* the file opens with the header of the given schema
headedBy(file, schema) ==
    /\ file.exists
    /\ Len(file.lines) > 0
    /\ trim(file.lines[1]) = trim(getHeaderString(schema))

\* C19: dataset schema versioning.  Whenever a dataset-logging model is
\* constructed, afterwards the dataset file exists and its first line is the
\* model's header; a file found with that header is kept as it is; a file
\* found with any other content is kept unmodified under a backup name and
\* a fresh file is started; no earlier backup is lost; and rows are only
\* ever appended below the header of the model that writes them.
C19_SchemaVersioningPreservesRows ==
    [][/\ (constructions' = constructions + 1) =>
            /\ headedBy(datasetFile', datasetSchema')
            /\ headedBy(datasetFile, datasetSchema') =>
                   /\ datasetFile' = datasetFile
                   /\ backupFiles' = backupFiles
            /\ (datasetFile.exists /\ ~headedBy(datasetFile, datasetSchema')) =>
                   /\ datasetFile'.lines = <<getHeaderString(datasetSchema')>>
                   /\ \E t \in DOMAIN backupFiles' : backupFiles'[t] = datasetFile
            /\ \A t \in DOMAIN backupFiles :
                   backupFiles[t].exists =>
                       \E u \in DOMAIN backupFiles' : backupFiles'[u] = backupFiles[t]
       /\ (rowsWritten' = rowsWritten + 1) =>
            /\ headedBy(datasetFile, datasetSchema)
            /\ SubSeq(datasetFile'.lines, 1, Len(datasetFile.lines)) = datasetFile.lines
            /\ backupFiles' = backupFiles]_vars

\* C20: after any sequence of setFitness, setParameter, setParameters,
\* setParameterCount, invalidateFitness and UniformMutation, the individual
\* reports hasBeenEvaluated() only if its parameter vector has not been
\* modified since the last setFitness; and a setParameter with an index out
\* of range changes neither the parameters, the fitness nor the flag.
C20_EvaluatedOnlyIfUnmodified ==
    /\ [](individual.isEvaluated => ~modifiedSince)
    /\ [][(/\ individualOp' # individualOp \/ individual' # individual
           /\ individualOp'.op = "setParameter"
           /\ \/ individualOp'.index < 1
              \/ individualOp'.index > Len(individual.parameters))
          => individual' = individual]_vars

\* an evaluated individual with modified parameters, its flag left standing
\* by a setParameter just past the end of the vector
C20_Witness ==
    /\ individual.isEvaluated
    /\ individualOp.op = "setParameter"
    /\ individualOp.index = Len(individual.parameters) + 1
    /\ Len(individual.parameters) = 1
    /\ individual.parameters[1] = 1

\* C21: genome repair is idempotent.  A second repair of a genome changes
\* nothing; a repair changes at most the filterEnv entry; and a genome
\* with no filterEnv entry is left as it is.
C21_RepairIdempotent ==
    /\ [][(repaired'.calls = repaired.calls + 1 /\ repaired.calls >= 1)
              => repaired'.genome = repaired.genome]_vars
    /\ [](/\ Len(repaired.genome) = Len(repaired.given)
          /\ \A i \in 1..Len(repaired.given) :
                 i # FilterEnv => repaired.genome[i] = repaired.given[i]
          /\ Len(repaired.given) < FilterEnv => repaired.genome = repaired.given)

\* a genome of full length whose envelope depth the first repair raised,
\* repaired a second time
C21_Witness ==
    /\ repaired.calls = 2
    /\ Len(repaired.given) > FilterEnv
    /\ repaired.given[FilterFreq] = 10
    /\ repaired.given[FilterEnv] = 30
    /\ repaired.genome[FilterEnv] > 50

\* C22: UniformMutation invalidates the fitness only if a parameter value
\* changed.  When a mutation leaves every parameter equal to its value
\* before the call (nothing selected, a zero perturbation, a perturbation
\* absorbed by the clamp), the evaluated flag and the fitness are as before.
C22_MutationInvalidatesOnlyOnChange ==
    [][(/\ individualOp'.op = "UniformMutation"
        /\ individual'.parameters = individual.parameters)
       => /\ individual'.isEvaluated = individual.isEvaluated
          /\ individual'.fitness = individual.fitness]_vars

\* the slots holding an evaluated individual
evaluatedSlots == {j \in 1..Len(individuals) : individuals[j].isEvaluated}

C24_StopThenStartReseeds ==
    /\ []((stopReturned /\ ctlPc = "idle") =>
            /\ ~populationInitialized
            /\ ~threadRunning
            /\ ENABLED (/\ startGA
                        /\ \A i \in 1..Len(individuals) :
                               individuals'[i].parameters # individuals[i].parameters))
    /\ [][(stopReturned /\ ~threadRunning /\ threadRunning') =>
            /\ Len(individuals') = PopulationSize
            /\ populationInitialized'
            /\ \A i \in 1..PopulationSize :
                   /\ individuals'[i].isEvaluated
                   /\ individuals'[i].fitness \in evaluate(fitnessModel, individuals'[i].parameters)
                   /\ individuals'[i].fitness <= bestFitnessSoFar'
            /\ ready'
            /\ pushedBy' = "startGA"
            /\ storedFitness' = bestFitnessSoFar'
            /\ \E i \in 1..PopulationSize :
                   /\ individuals'[i].fitness = bestFitnessSoFar'
                   /\ individuals'[i].parameters = parameters']_vars

\* a run that bred and published has been stopped; its population and its
\* unread candidate are still there, and startGA is about to be called
C24_Witness ==
    /\ stopReturned
    /\ stopFrom = "Running"
    /\ ctlPc = "idle"
    /\ pushedBy = "run"
    /\ ready
    /\ Len(individuals) = PopulationSize
    /\ \E i \in 1..PopulationSize : individuals[i].fitness = 2
    /\ ENABLED (startGA /\ \A i \in 1..PopulationSize : individuals'[i].fitness = 0)

\* C26: pausing halts production.  While the engine is paused (pauseGA has
\* returned on a running engine and neither resumeGA nor stopGA has been
\* called since), the loop overwrites no population member and pushes
\* nothing to the bridge; and every generation that replaces brings the
\* full batch of offspring.
C26_PausedLoopProducesNothing ==
    [][/\ (paused /\ paused' /\ threadRunning /\ ctlPc = "idle") =>
            /\ individuals' = individuals
            /\ ~(enginePc = "publish" /\ enginePc' = "top" /\ offspring # <<>>)
       /\ (enginePc = "replace" /\ enginePc' = "publish" /\ offspring # <<>>) =>
            Len(offspring) = OffspringPerGeneration]_vars

\* C27: paused implies running.  Between calls of startGA, stopGA, pauseGA
\* and resumeGA, isGAPaused() implies isGARunning(); on an engine that is
\* not running pauseGA and resumeGA change nothing; on a running engine
\* pauseGA leaves isGAPaused() true and isGARunning() true, and resumeGA
\* leaves isGAPaused() false.
C27_PausedImpliesRunning ==
    (ctlPc = "idle") =>
        /\ paused => threadRunning
        /\ ~threadRunning =>
               /\ ~ENABLED (pauseGA /\ vars' # vars)
               /\ ~ENABLED (resumeGA /\ vars' # vars)
        /\ threadRunning =>
               /\ ENABLED pauseGA
               /\ ~ENABLED (pauseGA /\ ~(paused' /\ threadRunning'))
               /\ ENABLED resumeGA
               /\ ~ENABLED (resumeGA /\ (paused' \/ ~threadRunning'))

\* the engine sits paused inside a generation, between two calls
C27_Witness ==
    /\ ctlPc = "idle"
    /\ paused
    /\ threadRunning
    /\ enginePc = "gen_pause_wait"
    /\ ~pauseEvent

\* the highest fitness stored in a population
highestFitness(inds) ==
    CHOOSE f \in {inds[i].fitness : i \in 1..Len(inds)} :
        \A i \in 1..Len(inds) : inds[i].fitness <= f

\* C28: elitism of the steady-state loop.  Within a run the highest fitness
\* stored in the population does not decrease when a generation replaces,
\* and bestFitnessSoFar equals the population's highest stored fitness
\* after every generation (and all through the run except between a
\* replacement and the tracker update that follows it).
C28_BestNeverDecreases ==
    /\ [][(enginePc = "replace" /\ enginePc' = "publish") =>
              highestFitness(individuals') >= highestFitness(individuals)]_vars
    /\ [][(enginePc = "publish" /\ enginePc' = "top") =>
              bestFitnessSoFar' = highestFitness(individuals')]_vars
    /\ []((threadRunning /\ enginePc # "publish") =>
              bestFitnessSoFar = highestFitness(individuals))

\* a generation has ended with the tracker at 2 while an individual of
\* fitness 0 is still in the population
C28_Witness ==
    /\ threadRunning
    /\ enginePc = "top"
    /\ pushedBy = "run"
    /\ bestFitnessSoFar = 2
    /\ \E i \in 1..Len(individuals) : individuals[i].fitness = 0

\* C29: cache entries are never confused between genomes.  getFeatures
\* returns features extracted from the very genome it was called with, and
\* hasCached answers true only for a genome whose own features are in the
\* cache.
C29_EntriesNeverConfused ==
    [][/\ getFeaturesStep => cacheReturn'[1] = cacheCall'.genome
       /\ (cacheCalls' = cacheCalls + 1 /\ cacheCall'.op = "hasCached" /\ cacheReturn') =>
              \E k \in DOMAIN cache : cache[k][1] = cacheCall'.genome]_vars

(***************************************************************************)
(* Properties of replay training (SpecReplay)                              *)
(***************************************************************************)

\* the replay pass has its indices and has not returned to the caller
inReplayPass == workerPc \in {"replay_loop", "replay_audio", "replay_return"}

\* the sample at buffer position p had its genome in the cache when the
\* pass began
cachedAtStart(p) == hashGenome(replayBuffer[p]) \in replay.keys

\* the positions of the pass whose loop iteration is complete
iterated == SubSeq(replay.genomeTrained, 1, replay.i)

inOrder(n) == [i \in 1..n |-> i]

\* the item the training thread has dequeued and not yet trained on
dequeued == IF workerPc \in {"train_lock", "train"} THEN <<item>> ELSE <<>>

\* the number of items sendFeedback has put in the queue
enqueued == IF callerPc = "send_signal" THEN callerIndex
            ELSE IF callerPc \in {"send_lock", "send_push"} THEN callerIndex - 1
            ELSE sampleCount

\* C30: no accepted feedback is lost.  The items leave the queue once each
\* and in the order they were put in, each is trained on and then appended
\* to the dataset, and when the destructor has returned every item that was
\* put in the queue has been trained on, buffered and appended.
C30_NoFeedbackLost ==
    /\ trained \o dequeued \o feedbackQueue = inOrder(enqueued)
    /\ csvRows = inOrder(Len(csvRows))
    /\ Len(csvRows) <= Len(trained)
    /\ callerPc = "destroyed" =>
           /\ feedbackQueue = <<>>
           /\ trained = inOrder(enqueued)
           /\ csvRows = inOrder(enqueued)

\* The queue is handled in order and nothing is processed twice or out of
\* turn; items are lost only by being left in the queue or cut short.
C30_InOrderAtMostOnce ==
    /\ trained = inOrder(Len(trained))
    /\ csvRows = inOrder(Len(csvRows))
    /\ Len(csvRows) <= Len(trained)
    /\ Len(trained) + Len(feedbackQueue) \in {enqueued - 1, enqueued}
    /\ \A i \in 1..Len(feedbackQueue) :
           feedbackQueue[i] = enqueued - Len(feedbackQueue) + i
    /\ workerPc # "killed" => trained \o dequeued \o feedbackQueue = inOrder(enqueued)

\* the destructor has returned with the training thread ended by itself and
\* two items still in the queue
C30_LeftInQueue ==
    /\ callerPc = "destroyed"
    /\ workerPc = "exited"
    /\ Len(feedbackQueue) >= 2

====
